---- MODULE Spec2Model ----
(***************************************************************************)
(* claude-cost: log ingestion (DataProcessor) and metric calculation       *)
(* (MetricsCalculator) of src/src/claude_cost/core.py.                     *)
(*                                                                         *)
(* Units.  A timestamp is a number of seconds on one time line plus the    *)
(* flag `aware` (the ISO string carried a UTC offset or a trailing Z).     *)
(* Money is an integer number of 10^-8 dollars: a price is kept in cents   *)
(* per million tokens, so tokens * price is exact.  A quotient the code    *)
(* computes in floating point is kept as the pair [num, den].              *)
(***************************************************************************)
EXTENDS Integers, Sequences, FiniteSets, TLC

VARIABLES
    corpus,                       \* the lines the log files of this run may hold
    pc,                           \* position of process_files
    files_seen,                   \* files the loop of process_files has taken
    lines_read,                   \* lines handed to _process_line
    last_line,                    \* the line _process_line handled last
    last_exception,               \* exception that line let escape ("none" if none)
    next_id,                      \* number of session objects created so far
    all_messages, all_sessions, limit_hits, hourly_patterns, model_usage,
    token_size_buckets, all_timestamps, last_5h_messages,
    total_cost, total_tokens, total_input_tokens, total_output_tokens,
    total_cache_creation_tokens, total_cache_read_tokens,
    current_session, session_start,
    metrics,                      \* the record calculate_metrics returned last
    run,                          \* a command-line run: arguments, stdout, position, output
    pred,                         \* a call of a prediction function: arguments and result
    further_calls                 \* calls of process_files after the first on this processor

dpVars == <<all_messages, all_sessions, limit_hits, hourly_patterns, model_usage,
            token_size_buckets, all_timestamps, last_5h_messages,
            total_cost, total_tokens, total_input_tokens, total_output_tokens,
            total_cache_creation_tokens, total_cache_read_tokens,
            current_session, session_start, next_id>>

callVars == <<run, pred, further_calls>>

vars == <<corpus, pc, files_seen, lines_read, last_line, last_exception, dpVars, metrics,
          callVars>>

---------------------------------------------------------------------------
(* Bounds of the model *)

MaxLines == 3
MaxFiles == 2
MaxCalls == 1

---------------------------------------------------------------------------
(* Program constants *)

SessionGap == 3600
FiveHours == 18000
SmallMax == 10000
MediumMax == 50000
LargeMax == 200000

Sonnet == "claude-sonnet-4-20250514"
Opus == "claude-opus-4-20250514"
Haiku == "claude-haiku-3.5-20241022"

\* cents per million tokens
PRICING ==
    [m \in {Opus, Sonnet, Haiku} |->
        CASE m = Opus   -> [input |-> 1500, output |-> 7500, cache_creation |-> 1875, cache_read |-> 150]
          [] m = Sonnet -> [input |-> 300,  output |-> 1500, cache_creation |-> 375,  cache_read |-> 30]
          [] m = Haiku  -> [input |-> 80,   output |-> 400,  cache_creation |-> 100,  cache_read |-> 8]]

---------------------------------------------------------------------------
(* Values *)

None == [set |-> FALSE, time |-> 0, aware |-> FALSE]
Timestamp(t, aw) == [set |-> TRUE, time |-> t, aware |-> aw]

NoSession == [open |-> FALSE, id |-> 0, start |-> None, messages |-> <<>>,
              total_cost |-> 0, total_tokens |-> 0]

Absent == "<absent>"
NonString == "<non-string>"

Frac(n, d) == [num |-> n, den |-> d]
Zero == Frac(0, 1)

\* str.lower on the error_type values of the corpus
Lower(s) ==
    CASE s = "USAGE_LIMIT"    -> "usage_limit"
      [] s = "Quota_Exceeded" -> "quota_exceeded"
      [] s = "Rate_Limit"     -> "rate_limit"
      [] OTHER                -> s

---------------------------------------------------------------------------
(* DataProcessor *)

\* the DataProcessor object as one record (exc: the exception in flight)
DP == [all_messages |-> all_messages, all_sessions |-> all_sessions,
       limit_hits |-> limit_hits, hourly_patterns |-> hourly_patterns,
       model_usage |-> model_usage, token_size_buckets |-> token_size_buckets,
       all_timestamps |-> all_timestamps, last_5h_messages |-> last_5h_messages,
       total_cost |-> total_cost, total_tokens |-> total_tokens,
       total_input_tokens |-> total_input_tokens,
       total_output_tokens |-> total_output_tokens,
       total_cache_creation_tokens |-> total_cache_creation_tokens,
       total_cache_read_tokens |-> total_cache_read_tokens,
       current_session |-> current_session, session_start |-> session_start,
       next_id |-> next_id, exc |-> "none"]

\* DataProcessor.__init__
NewDP == [all_messages |-> <<>>, all_sessions |-> <<>>, limit_hits |-> <<>>,
          hourly_patterns |-> <<>>, model_usage |-> <<>>,
          token_size_buckets |-> [small |-> <<>>, medium |-> <<>>, large |-> <<>>, xlarge |-> <<>>],
          all_timestamps |-> <<>>, last_5h_messages |-> <<>>,
          total_cost |-> 0, total_tokens |-> 0, total_input_tokens |-> 0,
          total_output_tokens |-> 0, total_cache_creation_tokens |-> 0,
          total_cache_read_tokens |-> 0,
          current_session |-> NoSession, session_start |-> None,
          next_id |-> 0, exc |-> "none"]

Raise(s, e) == [s EXCEPT !.exc = e]

\* defaultdict(list)[key].append(v); the dictionary is a sequence of <<key, list>>
\* in insertion order
RECURSIVE DictAppend(_, _, _)
DictAppend(d, key, v) ==
    IF d = <<>> THEN << <<key, <<v>> >> >>
    ELSE IF Head(d)[1] = key THEN << <<key, Append(Head(d)[2], v)>> >> \o Tail(d)
    ELSE <<Head(d)>> \o DictAppend(Tail(d), key, v)

_start_new_session(s, timestamp) ==
    [s EXCEPT !.current_session = [open |-> TRUE, id |-> s.next_id + 1, start |-> timestamp,
                                   messages |-> <<>>, total_cost |-> 0, total_tokens |-> 0],
              !.session_start = timestamp,
              !.next_id = s.next_id + 1]

\* the subtraction written the other way round: session_start - timestamp
BoundaryOperandsSwapped(s, timestamp) ==
    IF s.session_start.set /\ s.session_start.aware # timestamp.aware
    THEN Raise(s, "TypeError")
    ELSE IF s.session_start.set /\ s.session_start.time - timestamp.time > SessionGap
    THEN _start_new_session(
             IF s.current_session.open
             THEN [s EXCEPT !.all_sessions = Append(@, s.current_session)]
             ELSE s,
             timestamp)
    ELSE IF ~s.current_session.open
    THEN _start_new_session(s, timestamp)
    ELSE s

\* a new session started without the closed one being appended
BoundaryWithoutAppend(s, timestamp) ==
    IF s.session_start.set /\ s.session_start.aware # timestamp.aware
    THEN Raise(s, "TypeError")
    ELSE IF s.session_start.set /\ timestamp.time - s.session_start.time > SessionGap
    THEN _start_new_session(s, timestamp)
    ELSE IF ~s.current_session.open
    THEN _start_new_session(s, timestamp)
    ELSE s

\* timestamp - session_start raises TypeError when exactly one of them is naive
_handle_session_boundary(s, timestamp) ==
    IF s.session_start.set /\ s.session_start.aware # timestamp.aware
    THEN Raise(s, "TypeError")
    ELSE IF s.session_start.set /\ timestamp.time - s.session_start.time > SessionGap
    THEN _start_new_session(
             IF s.current_session.open
             THEN [s EXCEPT !.all_sessions = Append(@, s.current_session)]
             ELSE s,
             timestamp)
    ELSE IF ~s.current_session.open
    THEN _start_new_session(s, timestamp)
    ELSE s

\* error_type compared without .lower()
UsageLimitCaseSensitive(line) ==
    \/ line.error_code \in {"quota_exceeded", "usage_limit_exceeded"}
    \/ line.status \in {"limit_exceeded", "quota_exceeded"}
    \/ line.error_type \in {"usage_limit", "quota_exceeded"}
    \/ (line.usage = "absent" /\ line.error)

is_usage_limit(line) ==
    \/ line.error_code \in {"quota_exceeded", "usage_limit_exceeded"}
    \/ line.status \in {"limit_exceeded", "quota_exceeded"}
    \/ Lower(line.error_type) \in {"usage_limit", "quota_exceeded"}
    \/ (line.usage = "absent" /\ line.error)

\* the content-based detection of src/claude_comprehensive_metrics.py
CheckLimitHitsByContent(s, line, timestamp) ==
    IF line.message = "object"
       /\ line.content \in {"usage limit", "quota exceeded", "limit exceeded"}
       /\ s.current_session.open
    THEN [s EXCEPT !.limit_hits = Append(@,
              [timestamp |-> timestamp, indicator |-> line.content,
               session_tokens |-> s.current_session.total_tokens,
               session_messages |-> Len(s.current_session.messages)])]
    ELSE s

\* message.get('error_type', '').lower() raises AttributeError on a non-string
_check_for_limit_hits(s, line, timestamp) ==
    IF line.message # "object" THEN s
    ELSE IF line.error_type = NonString THEN Raise(s, "AttributeError")
    ELSE IF is_usage_limit(line) /\ s.current_session.open
    THEN [s EXCEPT !.limit_hits = Append(@,
              [timestamp |-> timestamp, indicator |-> "metadata_detected_limit",
               session_tokens |-> s.current_session.total_tokens,
               session_messages |-> Len(s.current_session.messages)])]
    ELSE s

\* an unknown model priced as Sonnet instead of 0
MessageCostDefaultPrice(model, input_tokens, output_tokens, cache_creation_tokens, cache_read_tokens) ==
    LET pricing == IF model \in DOMAIN PRICING THEN PRICING[model] ELSE PRICING[Sonnet]
    IN  input_tokens * pricing.input + output_tokens * pricing.output
        + cache_creation_tokens * pricing.cache_creation
        + cache_read_tokens * pricing.cache_read

_calculate_message_cost(model, input_tokens, output_tokens, cache_creation_tokens, cache_read_tokens) ==
    IF model \notin DOMAIN PRICING THEN 0
    ELSE input_tokens * PRICING[model].input
         + output_tokens * PRICING[model].output
         + cache_creation_tokens * PRICING[model].cache_creation
         + cache_read_tokens * PRICING[model].cache_read

\* the cache-read total is not accumulated
StoreWithoutCacheReadTotal(s, message_data, message_cost, message_tokens, now) ==
    LET s1 == [s EXCEPT !.all_messages = Append(@, message_data)]
        s2 == IF message_data.timestamp.set /\ message_data.timestamp.time >= now - FiveHours
              THEN [s1 EXCEPT !.last_5h_messages = Append(@, message_data)]
              ELSE s1
        s3 == IF ~s2.current_session.open THEN s2
              ELSE IF ~message_data.numeric
              THEN Raise([s2 EXCEPT !.current_session.messages = Append(@, message_data)],
                         "TypeError")
              ELSE [s2 EXCEPT !.current_session.messages = Append(@, message_data),
                              !.current_session.total_cost = @ + message_cost,
                              !.current_session.total_tokens = @ + message_tokens]
    IN  IF s3.exc # "none" THEN s3
        ELSE IF ~message_data.numeric
        THEN Raise([s3 EXCEPT !.total_cost = @ + message_cost], "TypeError")
        ELSE [s3 EXCEPT !.total_cost = @ + message_cost,
                        !.total_tokens = @ + message_tokens,
                        !.total_input_tokens = @ + message_data.input_tokens,
                        !.total_output_tokens = @ + message_data.output_tokens,
                        !.total_cache_creation_tokens = @ + message_data.cache_creation_tokens]

\* With token counts that are strings the sum of line 173 is a concatenation and
\* `+=` on the integer total raises TypeError after the appends.
_store_message_data(s, message_data, message_cost, message_tokens, now) ==
    LET s1 == [s EXCEPT !.all_messages = Append(@, message_data)]
        s2 == IF message_data.timestamp.set /\ message_data.timestamp.time >= now - FiveHours
              THEN [s1 EXCEPT !.last_5h_messages = Append(@, message_data)]
              ELSE s1
        s3 == IF ~s2.current_session.open THEN s2
              ELSE IF ~message_data.numeric
              THEN Raise([s2 EXCEPT !.current_session.messages = Append(@, message_data)],
                         "TypeError")
              ELSE [s2 EXCEPT !.current_session.messages = Append(@, message_data),
                              !.current_session.total_cost = @ + message_cost,
                              !.current_session.total_tokens = @ + message_tokens]
    IN  IF s3.exc # "none" THEN s3
        ELSE IF ~message_data.numeric
        THEN Raise([s3 EXCEPT !.total_cost = @ + message_cost], "TypeError")
        ELSE [s3 EXCEPT !.total_cost = @ + message_cost,
                        !.total_tokens = @ + message_tokens,
                        !.total_input_tokens = @ + message_data.input_tokens,
                        !.total_output_tokens = @ + message_data.output_tokens,
                        !.total_cache_creation_tokens = @ + message_data.cache_creation_tokens,
                        !.total_cache_read_tokens = @ + message_data.cache_read_tokens]

Bucket(message_tokens) ==
    IF message_tokens <= SmallMax THEN "small"
    ELSE IF message_tokens <= MediumMax THEN "medium"
    ELSE IF message_tokens <= LargeMax THEN "large"
    ELSE "xlarge"

\* the chain ends with `elif message_tokens <= 200000`: no else branch
CategorizeWithoutElse(s, message_data, model, message_tokens, message_cost) ==
    LET s1 == IF message_data.timestamp.set
              THEN [s EXCEPT !.hourly_patterns = DictAppend(@, message_data.hour, message_cost)]
              ELSE s
        s2 == IF message_tokens > 0
              THEN [s1 EXCEPT !.model_usage = DictAppend(@, model,
                        [cost |-> message_cost, tokens |-> message_tokens,
                         efficiency |-> IF message_cost > 0
                                        THEN Frac(message_tokens, message_cost) ELSE Zero])]
              ELSE s1
    IN  IF message_tokens <= LargeMax
        THEN [s2 EXCEPT !.token_size_buckets[Bucket(message_tokens)] = Append(@, message_data)]
        ELSE s2

_categorize_message(s, message_data, model, message_tokens, message_cost) ==
    LET s1 == IF message_data.timestamp.set
              THEN [s EXCEPT !.hourly_patterns = DictAppend(@, message_data.hour, message_cost)]
              ELSE s
        s2 == IF message_tokens > 0
              THEN [s1 EXCEPT !.model_usage = DictAppend(@, model,
                        [cost |-> message_cost, tokens |-> message_tokens,
                         efficiency |-> IF message_cost > 0
                                        THEN Frac(message_tokens, message_cost) ELSE Zero])]
              ELSE s1
    IN  [s2 EXCEPT !.token_size_buckets[Bucket(message_tokens)] = Append(@, message_data)]

Hour(timestamp) == IF timestamp.set THEN (timestamp.time \div 3600) % 24 ELSE 0

_process_usage_data(s, line, timestamp, now) ==
    IF line.type # "assistant" \/ line.message = "absent" THEN s
    ELSE IF line.message = "scalar" THEN Raise(s, "TypeError")       \* 'usage' in 5
    ELSE IF line.message = "string" THEN s                          \* 'usage' in "text"
    ELSE IF line.usage = "absent" THEN s
    ELSE IF line.usage = "nondict" THEN Raise(s, "AttributeError")   \* usage.get
    ELSE IF line.tokens = "null" THEN Raise(s, "TypeError")          \* None + None
    ELSE IF line.tokens = "string" /\ line.model \in DOMAIN PRICING
    THEN Raise(s, "TypeError")                                       \* str / 1_000_000
    ELSE
        LET model == IF line.model = Absent THEN "unknown" ELSE line.model
            input_tokens == line.input_tokens
            output_tokens == line.output_tokens
            cache_creation_tokens == line.cache_creation_input_tokens
            cache_read_tokens == line.cache_read_input_tokens
            message_tokens == input_tokens + output_tokens + cache_creation_tokens + cache_read_tokens
            message_cost == _calculate_message_cost(model, input_tokens, output_tokens,
                                                    cache_creation_tokens, cache_read_tokens)
            message_data == [id |-> Len(s.all_messages) + 1,
                             timestamp |-> timestamp, model |-> model, cost |-> message_cost,
                             tokens |-> message_tokens, input_tokens |-> input_tokens,
                             output_tokens |-> output_tokens,
                             cache_creation_tokens |-> cache_creation_tokens,
                             cache_read_tokens |-> cache_read_tokens,
                             hour |-> Hour(timestamp),
                             numeric |-> line.tokens = "numeric"]
            stored == _store_message_data(s, message_data, message_cost, message_tokens, now)
        IN  IF stored.exc # "none" THEN stored
            ELSE _categorize_message(stored, message_data, model, message_tokens, message_cost)

\* the timestamp is recorded before it is parsed
ExtractTimestampAppendFirst(s, line) ==
    CASE line.json = "scalar"     -> <<Raise(s, "TypeError"), None>>
      [] line.ts = "absent"       -> <<s, None>>
      [] line.ts = "nonstring"    -> <<Raise(s, "AttributeError"), None>>
      [] line.ts = "malformed"    ->
            <<Raise([s EXCEPT !.all_timestamps = Append(@, None)], "ValueError"), None>>
      [] OTHER ->
            LET timestamp == Timestamp(line.time, line.ts = "aware")
            IN  <<[s EXCEPT !.all_timestamps = Append(@, timestamp)], timestamp>>

\* returns <<processor, timestamp>>
_extract_timestamp(s, line) ==
    CASE line.json = "scalar"     -> <<Raise(s, "TypeError"), None>>
      [] line.ts = "absent"       -> <<s, None>>
      [] line.ts = "nonstring"    -> <<Raise(s, "AttributeError"), None>>
      [] line.ts = "malformed"    -> <<Raise(s, "ValueError"), None>>
      [] OTHER ->
            LET timestamp == Timestamp(line.time, line.ts = "aware")
            IN  <<[s EXCEPT !.all_timestamps = Append(@, timestamp)], timestamp>>

\* the usage of the line processed before its limit check
TryProcessLineUsageFirst(s, line, now) ==
    IF line.json = "invalid" THEN Raise(s, "JSONDecodeError")
    ELSE
        LET ex == _extract_timestamp(s, line)
            timestamp == ex[2]
            s1 == ex[1]
            s2 == IF s1.exc # "none" \/ ~timestamp.set THEN s1
                  ELSE _handle_session_boundary(s1, timestamp)
            s3 == IF s2.exc # "none" THEN s2
                  ELSE _process_usage_data(s2, line, timestamp, now)
        IN  IF s3.exc # "none" \/ ~timestamp.set THEN s3
            ELSE _check_for_limit_hits(s3, line, timestamp)

\* the body of the try block of _process_line; exc names the exception that left it
TryProcessLine(s, line, now) ==
    IF line.json = "invalid" THEN Raise(s, "JSONDecodeError")
    ELSE
        LET ex == _extract_timestamp(s, line)
            timestamp == ex[2]
            s1 == ex[1]
            s2 == IF s1.exc # "none" \/ ~timestamp.set THEN s1
                  ELSE _handle_session_boundary(s1, timestamp)
            s3 == IF s2.exc # "none" \/ ~timestamp.set THEN s2
                  ELSE _check_for_limit_hits(s2, line, timestamp)
        IN  IF s3.exc # "none" THEN s3
            ELSE _process_usage_data(s3, line, timestamp, now)

Caught == {"JSONDecodeError", "KeyError", "ValueError"}

\* _process_line: exc is "none" after a caught exception, the exception otherwise
_process_line(s, line, now) ==
    LET r == TryProcessLine(s, line, now)
    IN  IF r.exc \in Caught THEN [r EXCEPT !.exc = "none"] ELSE r

---------------------------------------------------------------------------
(* MetricsCalculator *)

RECURSIVE SumField(_, _)
SumField(seq, f) == IF seq = <<>> THEN 0 ELSE Head(seq)[f] + SumField(Tail(seq), f)

\* statistics.mean of a list of quotients, kept as the list; the code gives 0
\* for the empty list
MeanOf(seq) == [mean_of |-> seq]

\* ComprehensiveMetrics(): every field at its default
ZeroMetrics ==
    [calculated |-> FALSE,
     total_cost |-> 0, total_cost_without_cache |-> 0, cache_savings |-> 0,
     cost_per_session |-> Zero, cost_per_token |-> Zero, cost_per_message |-> Zero,
     per_day_spend_with_cache |-> Zero, per_day_spend_without_cache |-> Zero,
     total_tokens |-> 0, input_tokens |-> 0, output_tokens |-> 0,
     cache_creation_tokens |-> 0, cache_read_tokens |-> 0, tokens_per_dollar |-> Zero,
     cache_hit_rate |-> Zero, cache_roi |-> Zero, cache_efficiency |-> Zero,
     session_count |-> 0, avg_session_duration |-> Zero,
     session_intensity |-> MeanOf(<<>>), message_frequency |-> Zero,
     total_limit_hits |-> 0, avg_tokens_before_limit |-> Zero,
     avg_messages_before_limit |-> Zero,
     last_5h_cost |-> 0, last_5h_tokens |-> 0, last_5h_messages |-> 0,
     last_5h_cache_hit_rate |-> Zero, last_5h_avg_cost_per_token |-> Zero]

\* list.sort() on datetimes: stable, by instant
RECURSIVE InsertSorted(_, _)
InsertSorted(sorted, ts) ==
    IF sorted = <<>> THEN <<ts>>
    ELSE IF ts.time < Head(sorted).time THEN <<ts>> \o sorted
    ELSE <<Head(sorted)>> \o InsertSorted(Tail(sorted), ts)

RECURSIVE SortTimestamps(_)
SortTimestamps(seq) ==
    IF seq = <<>> THEN <<>>
    ELSE InsertSorted(SortTimestamps(SubSeq(seq, 1, Len(seq) - 1)), seq[Len(seq)])

_calculate_basic_metrics(m, p) ==
    [m EXCEPT !.total_cost = p.total_cost,
              !.total_tokens = p.total_tokens,
              !.input_tokens = p.total_input_tokens,
              !.output_tokens = p.total_output_tokens,
              !.cache_creation_tokens = p.total_cache_creation_tokens,
              !.cache_read_tokens = p.total_cache_read_tokens]

\* cache-read tokens of the messages of one model
RECURSIVE CacheReadOf(_, _)
CacheReadOf(msgs, model) ==
    IF msgs = <<>> THEN 0
    ELSE (IF Head(msgs).model = model THEN Head(msgs).cache_read_tokens ELSE 0)
         + CacheReadOf(Tail(msgs), model)

RECURSIVE CacheSavings(_, _)
CacheSavings(usage, msgs) ==
    IF usage = <<>> THEN 0
    ELSE LET model == Head(usage)[1]
         IN  (IF model \in DOMAIN PRICING
              THEN CacheReadOf(msgs, model) * (PRICING[model].input - PRICING[model].cache_read)
              ELSE 0)
             + CacheSavings(Tail(usage), msgs)

_calculate_cost_metrics(m, p) ==
    [m EXCEPT !.total_cost_without_cache =
                  (p.total_input_tokens + p.total_cache_creation_tokens
                   + p.total_cache_read_tokens) * 300 + p.total_output_tokens * 1500,
              !.cache_savings = CacheSavings(p.model_usage, p.all_messages),
              !.cost_per_session = IF p.all_sessions # <<>>
                                   THEN Frac(p.total_cost, Len(p.all_sessions)) ELSE Zero,
              !.cost_per_token = IF p.total_tokens > 0
                                 THEN Frac(p.total_cost, p.total_tokens) ELSE Zero,
              !.cost_per_message = IF p.all_messages # <<>>
                                   THEN Frac(p.total_cost, Len(p.all_messages)) ELSE Zero,
              !.tokens_per_dollar = IF p.total_cost > 0
                                    THEN Frac(p.total_tokens, p.total_cost) ELSE Zero]

\* the day span is taken from the timestamps as ingested, before the sort
TimeMetricsBeforeSort(m, p) ==
    IF p.all_timestamps # <<>>
    THEN LET days == (p.all_timestamps[Len(p.all_timestamps)].time
                      - p.all_timestamps[1].time) \div 86400 + 1
             days_span == IF days > 1 THEN days ELSE 1
         IN  [m EXCEPT !.per_day_spend_with_cache = Frac(p.total_cost, days_span),
                       !.per_day_spend_without_cache = Frac(m.total_cost_without_cache, days_span)]
    ELSE [m EXCEPT !.per_day_spend_with_cache = Frac(p.total_cost, 1),
                   !.per_day_spend_without_cache = Frac(m.total_cost_without_cache, 1)]

\* the metrics of _calculate_time_metrics, which sorts all_timestamps first; the
\* sort itself stays in the processor (see CalculateMetrics)
_calculate_time_metrics(m, p) ==
    IF p.all_timestamps # <<>>
    THEN LET sorted == SortTimestamps(p.all_timestamps)
             days == (sorted[Len(sorted)].time - sorted[1].time) \div 86400 + 1
             days_span == IF days > 1 THEN days ELSE 1
         IN  [m EXCEPT !.per_day_spend_with_cache = Frac(p.total_cost, days_span),
                       !.per_day_spend_without_cache = Frac(m.total_cost_without_cache, days_span)]
    ELSE [m EXCEPT !.per_day_spend_with_cache = Frac(p.total_cost, 1),
                   !.per_day_spend_without_cache = Frac(m.total_cost_without_cache, 1)]

\* cache-read tokens left out of the denominator
CacheMetricsWithoutReads(m, p) ==
    LET total_input_like == p.total_input_tokens + p.total_cache_creation_tokens
        cache_hit_rate == IF total_input_like > 0
                          THEN Frac(p.total_cache_read_tokens, total_input_like) ELSE Zero
    IN  [m EXCEPT !.cache_hit_rate = cache_hit_rate,
                  !.cache_roi = IF p.total_cache_creation_tokens > 0
                                THEN Frac(m.cache_savings, p.total_cache_creation_tokens * 300)
                                ELSE Zero,
                  !.cache_efficiency = Frac(cache_hit_rate.num * 100, cache_hit_rate.den)]

_calculate_cache_metrics(m, p) ==
    LET total_input_like == p.total_input_tokens + p.total_cache_creation_tokens
                            + p.total_cache_read_tokens
        cache_hit_rate == IF total_input_like > 0
                          THEN Frac(p.total_cache_read_tokens, total_input_like) ELSE Zero
    IN  [m EXCEPT !.cache_hit_rate = cache_hit_rate,
                  !.cache_roi = IF p.total_cache_creation_tokens > 0
                                THEN Frac(m.cache_savings, p.total_cache_creation_tokens * 300)
                                ELSE Zero,
                  !.cache_efficiency = Frac(cache_hit_rate.num * 100, cache_hit_rate.den)]

\* seconds from the first to the last message of each session that has more than
\* one message and a timestamp on both
RECURSIVE SessionDurations(_)
SessionDurations(sessions) ==
    IF sessions = <<>> THEN <<>>
    ELSE LET msgs == Head(sessions).messages
             here == IF Len(msgs) > 1 /\ msgs[1].timestamp.set /\ msgs[Len(msgs)].timestamp.set
                     THEN << [seconds |-> msgs[Len(msgs)].timestamp.time - msgs[1].timestamp.time,
                              tokens |-> Head(sessions).total_tokens] >>
                     ELSE <<>>
         IN  here \o SessionDurations(Tail(sessions))

\* session['total_tokens'] / duration_hours of the sessions that last more than
\* 0 seconds, each kept as its tokens and its seconds
RECURSIVE Intensities(_)
Intensities(durs) ==
    IF durs = <<>> THEN <<>>
    ELSE (IF Head(durs).seconds > 0
          THEN <<[tokens |-> Head(durs).tokens, seconds |-> Head(durs).seconds]>> ELSE <<>>)
         \o Intensities(Tail(durs))

_calculate_session_metrics(m, p) ==
    LET durs == SessionDurations(p.all_sessions)
    IN  IF p.all_sessions = <<>> THEN [m EXCEPT !.session_count = 0]
        ELSE [m EXCEPT !.session_count = Len(p.all_sessions),
                       !.avg_session_duration =
                           IF durs # <<>> THEN Frac(SumField(durs, "seconds"), 3600 * Len(durs))
                           ELSE Zero,
                       !.session_intensity = MeanOf(Intensities(durs)),
                       !.message_frequency = Frac(Len(p.all_messages), Len(p.all_sessions))]

_calculate_limit_metrics(m, p) ==
    IF p.limit_hits = <<>> THEN [m EXCEPT !.total_limit_hits = 0]
    ELSE [m EXCEPT !.total_limit_hits = Len(p.limit_hits),
                   !.avg_tokens_before_limit =
                       Frac(SumField(p.limit_hits, "session_tokens"), Len(p.limit_hits)),
                   !.avg_messages_before_limit =
                       Frac(SumField(p.limit_hits, "session_messages"), Len(p.limit_hits))]

_calculate_recent_metrics(m, p) ==
    IF p.last_5h_messages = <<>> THEN m
    ELSE LET cost == SumField(p.last_5h_messages, "cost")
             tokens == SumField(p.last_5h_messages, "tokens")
             reads == SumField(p.last_5h_messages, "cache_read_tokens")
             input_like == SumField(p.last_5h_messages, "input_tokens")
                           + SumField(p.last_5h_messages, "cache_creation_tokens") + reads
         IN  [m EXCEPT !.last_5h_cost = cost,
                       !.last_5h_tokens = tokens,
                       !.last_5h_messages = Len(p.last_5h_messages),
                       !.last_5h_cache_hit_rate =
                           IF input_like > 0 THEN Frac(reads, input_like) ELSE Zero,
                       !.last_5h_avg_cost_per_token =
                           IF tokens > 0 THEN Frac(cost, tokens) ELSE Zero]

\* the record MetricsCalculator.calculate_metrics returns on the processor p
calculate_metrics(p) ==
    LET m0 == [ZeroMetrics EXCEPT !.calculated = TRUE]
        m1 == _calculate_basic_metrics(m0, p)
        m2 == _calculate_cost_metrics(m1, p)
        m3 == _calculate_time_metrics(m2, p)
        m4 == _calculate_cache_metrics(m3, p)
        m5 == _calculate_session_metrics(m4, p)
        m6 == _calculate_limit_metrics(m5, p)
    IN  _calculate_recent_metrics(m6, p)

---------------------------------------------------------------------------
(* PredictionAnalyzer and the backtest of predictions.py *)

ThreeHours == 10800
UsageLimitThreshold == 9000000

Infinity == Frac(1, 0)

\* [msg for msg in msgs if msg['timestamp'] and lo <= msg['timestamp'] < hi]; after
\* a completed ingestion the timestamps are all naive or all aware, so the
\* comparison does not raise
MessagesBetween(msgs, lo, hi) ==
    SelectSeq(msgs, LAMBDA msg : /\ msg.timestamp.set
                                 /\ lo <= msg.timestamp.time
                                 /\ msg.timestamp.time < hi)

\* the pattern of one limit hit; `messages` is not a key of the code's dictionary,
\* it keeps the messages the sums were taken over
PatternBefore(msgs, hit) ==
    LET pre_limit_messages ==
            MessagesBetween(msgs, hit.timestamp.time - FiveHours, hit.timestamp.time)
    IN  [total_tokens |-> SumField(pre_limit_messages, "tokens"),
         total_messages |-> Len(pre_limit_messages),
         limit_timestamp |-> hit.timestamp,
         messages |-> pre_limit_messages]

\* a pattern for every limit hit, also over an empty window
PatternsOfEveryHit(msgs, hits) ==
    [k \in 1..Len(hits) |-> PatternBefore(msgs, hits[k])]

\* the loop over limit hits shared by analyze_five_hour_patterns and the backtest
RECURSIVE PatternsOf(_, _)
PatternsOf(msgs, hits) ==
    IF hits = <<>> THEN <<>>
    ELSE LET hit == Head(hits)
             pattern == PatternBefore(msgs, hit)
         IN  (IF hit.timestamp.set /\ pattern.messages # <<>> THEN <<pattern>> ELSE <<>>)
             \o PatternsOf(msgs, Tail(hits))

analyze_five_hour_patterns(p) == PatternsOf(p.all_messages, p.limit_hits)

\* get_current_three_hour_metrics: now is aware (timezone.utc), so comparing it
\* with a naive message timestamp raises TypeError
get_current_three_hour_metrics(p, now) ==
    IF \E k \in 1..Len(p.all_messages) :
          p.all_messages[k].timestamp.set /\ ~p.all_messages[k].timestamp.aware
    THEN [exc |-> "TypeError", current_3h_tokens |-> 0, current_3h_count |-> 0]
    ELSE LET current_3h_messages ==
                 SelectSeq(p.all_messages,
                           LAMBDA msg : msg.timestamp.set
                                        /\ msg.timestamp.time >= now - ThreeHours)
         IN  [exc |-> "none",
              current_3h_tokens |-> SumField(current_3h_messages, "tokens"),
              current_3h_count |-> Len(current_3h_messages)]

\* hours_to_next_limit: minutes / 60 unless the minutes are infinite
WithHours(m) ==
    [minutes_to_next_limit |-> m.minutes_to_next_limit,
     hours_to_next_limit |->
         IF m.minutes_to_next_limit = Infinity THEN Infinity
         ELSE Frac(m.minutes_to_next_limit.num, m.minutes_to_next_limit.den * 60),
     tokens_to_next_limit |-> m.tokens_to_next_limit,
     current_session_risk_score |-> m.current_session_risk_score]

\* the risk score without the cap at 100
PredictionMetricsUncapped(five_hour_patterns, current_3h_tokens) ==
    LET n == Len(five_hour_patterns)
        sum_tokens == SumField(five_hour_patterns, "total_tokens")
    IN  IF five_hour_patterns = <<>> \/ ~(sum_tokens > 0 /\ current_3h_tokens > 0)
        THEN WithHours([minutes_to_next_limit |-> Infinity,
                        tokens_to_next_limit |-> UsageLimitThreshold,
                        current_session_risk_score |-> Zero])
        ELSE WithHours(
             [minutes_to_next_limit |->
                  IF 10 * n * current_3h_tokens >= 8 * sum_tokens
                  THEN Frac(UsageLimitThreshold * 180, current_3h_tokens)
                  ELSE Frac((8 * sum_tokens - 10 * n * current_3h_tokens) * 18
                            + 60 * n * current_3h_tokens, n * current_3h_tokens),
              tokens_to_next_limit |->
                  IF 10 * n * current_3h_tokens >= 8 * sum_tokens
                  THEN UsageLimitThreshold
                  ELSE (24 * sum_tokens - 20 * n * current_3h_tokens) \div (30 * n),
              current_session_risk_score |->
                  Frac(1000 * n * current_3h_tokens, 6 * sum_tokens)])

\* the prediction without the test of the historical rate
PredictionMetricsAnyHistory(five_hour_patterns, current_3h_tokens) ==
    LET n == Len(five_hour_patterns)
        sum_tokens == SumField(five_hour_patterns, "total_tokens")
    IN  IF five_hour_patterns = <<>> \/ ~(current_3h_tokens > 0)
        THEN WithHours([minutes_to_next_limit |-> Infinity,
                        tokens_to_next_limit |-> UsageLimitThreshold,
                        current_session_risk_score |-> Zero])
        ELSE WithHours(
             [minutes_to_next_limit |->
                  IF 10 * n * current_3h_tokens >= 8 * sum_tokens
                  THEN Frac(UsageLimitThreshold * 180, current_3h_tokens)
                  ELSE Frac((8 * sum_tokens - 10 * n * current_3h_tokens) * 18
                            + 60 * n * current_3h_tokens, n * current_3h_tokens),
              tokens_to_next_limit |->
                  IF 10 * n * current_3h_tokens >= 8 * sum_tokens
                  THEN UsageLimitThreshold
                  ELSE (24 * sum_tokens - 20 * n * current_3h_tokens) \div (30 * n),
              current_session_risk_score |->
                  IF sum_tokens = 0 THEN Zero
                  ELSE IF 1000 * n * current_3h_tokens >= 100 * 6 * sum_tokens
                  THEN Frac(100, 1)
                  ELSE Frac(1000 * n * current_3h_tokens, 6 * sum_tokens)])

\* calculate_prediction_metrics, given the patterns and the current 3-hour token
\* count: the fields it sets on the metrics record.  The averages are
\* sum_tokens / n and sum_tokens / (300 n); the current rate is
\* current_3h_tokens / 180; risk_ratio * 100 is
\* 1000 n current_3h_tokens / (6 sum_tokens).
calculate_prediction_metrics(five_hour_patterns, current_3h_tokens) ==
    LET n == Len(five_hour_patterns)
        sum_tokens == SumField(five_hour_patterns, "total_tokens")
    IN  IF five_hour_patterns = <<>> \/ ~(sum_tokens > 0 /\ current_3h_tokens > 0)
        THEN WithHours([minutes_to_next_limit |-> Infinity,
                        tokens_to_next_limit |-> UsageLimitThreshold,
                        current_session_risk_score |-> Zero])
        ELSE WithHours(
             [minutes_to_next_limit |->
                  IF 10 * n * current_3h_tokens >= 8 * sum_tokens
                  THEN Frac(UsageLimitThreshold * 180, current_3h_tokens)
                  ELSE Frac((8 * sum_tokens - 10 * n * current_3h_tokens) * 18
                            + 60 * n * current_3h_tokens, n * current_3h_tokens),
              tokens_to_next_limit |->
                  IF 10 * n * current_3h_tokens >= 8 * sum_tokens
                  THEN UsageLimitThreshold
                  ELSE (24 * sum_tokens - 20 * n * current_3h_tokens) \div (30 * n),
              current_session_risk_score |->
                  IF 1000 * n * current_3h_tokens >= 100 * 6 * sum_tokens
                  THEN Frac(100, 1)
                  ELSE Frac(1000 * n * current_3h_tokens, 6 * sum_tokens)])

\* one iteration of the loop of backtest_predictions (test_idx counts from 1 as
\* in the code; sequences start at 1 here, so the target is hits[test_idx + 1]).
\* `appended` tells whether the iteration reaches backtest_results.append.
BacktestCase(msgs, hits, test_idx) ==
    LET target_limit == hits[test_idx + 1]
        training_limits == SubSeq(hits, 1, test_idx)
        training_patterns == PatternsOf(msgs, training_limits)
        n == Len(training_patterns)
        sum_tokens == SumField(training_patterns, "total_tokens")
        prediction_time == target_limit.timestamp.time - ThreeHours
        prediction_3h_messages ==
            MessagesBetween(msgs, prediction_time - ThreeHours, prediction_time)
        pred_3h_tokens == SumField(prediction_3h_messages, "tokens")
        appended == /\ training_patterns # <<>>
                    /\ prediction_3h_messages # <<>>
                    /\ sum_tokens > 0
                    /\ pred_3h_tokens > 0
    IN  [test_idx |-> test_idx,
         target_timestamp |-> target_limit.timestamp,
         training_limits |-> training_limits,
         training_patterns |-> training_patterns,
         prediction_3h_messages |-> prediction_3h_messages,
         pred_3h_tokens |-> pred_3h_tokens,
         appended |-> appended,
         predicted_minutes |->
             IF ~appended THEN Zero
             ELSE IF 10 * n * pred_3h_tokens >= 8 * sum_tokens THEN Frac(180, 1)
             ELSE Frac((8 * sum_tokens - 10 * n * pred_3h_tokens) * 18
                       + 60 * n * pred_3h_tokens, n * pred_3h_tokens),
         actual_minutes |-> ThreeHours \div 60]

\* backtest_predictions: the entries of backtest_results
backtest_predictions(msgs, hits) ==
    IF Len(hits) < 2 THEN <<>>
    ELSE LET cases == [test_idx \in 1..(Len(hits) - 1) |-> BacktestCase(msgs, hits, test_idx)]
         IN  SelectSeq(cases, LAMBDA c : c.appended)

---------------------------------------------------------------------------
(* Log lines *)

\* json: "invalid" (not JSON), "scalar" (JSON, not an object), "object";
\* ts: the timestamp field; message, usage: the shape of that field;
\* tokens: "numeric", "null" or "string" token counts
BaseLine == [json |-> "object", ts |-> "aware", time |-> 0, type |-> "assistant",
             message |-> "object", error_code |-> Absent, status |-> Absent,
             error_type |-> Absent, error |-> FALSE, usage |-> "object",
             model |-> Sonnet, tokens |-> "numeric",
             input_tokens |-> 100, output_tokens |-> 0,
             cache_creation_input_tokens |-> 0, cache_read_input_tokens |-> 0,
             content |-> "hello"]

\* before the first line
NoLine == [BaseLine EXCEPT !.json = "none", !.content = ""]

\* an assistant line with a usage record
Usage(t, model, i, o, cc, cr) ==
    [BaseLine EXCEPT !.time = t, !.model = model, !.input_tokens = i, !.output_tokens = o,
                     !.cache_creation_input_tokens = cc, !.cache_read_input_tokens = cr]

\* a line of another type whose message carries no usage record
Meta(t) == [BaseLine EXCEPT !.time = t, !.type = "user", !.usage = "absent"]

SessionLines ==
    { Usage(t, Sonnet, 100, 20, 0, 0) : t \in {0, 1800, 3600, 3601, 5401} }
    \cup { Meta(3601),
           [Usage(0, Sonnet, 7, 0, 0, 0) EXCEPT !.ts = "absent"],
           [Usage(1800, Sonnet, 100, 20, 0, 0) EXCEPT !.ts = "naive"] }

TokenLines ==
    { Usage(0, Sonnet, 0, 0, 0, 0),
      Usage(3600, Sonnet, 4000, 3000, 2000, 1000),
      Usage(0, Sonnet, 10001, 0, 0, 0),
      Usage(0, Opus, 0, 50000, 0, 0),
      Usage(0, Haiku, 1, 0, 0, 50000),
      Usage(90000, Haiku, 100000, 0, 100000, 0),
      Usage(0, Opus, 0, 1, 0, 200000),
      Usage(3600, "claude-3-opus", 500000, 0, 0, 0),
      [Usage(0, Absent, 0, 0, 0, 300) EXCEPT !.ts = "absent"] }

LimitLines ==
    { [Meta(1800) EXCEPT !.error_code = "quota_exceeded"],
      [Meta(1800) EXCEPT !.error_code = "usage_limit_exceeded", !.content = "usage limit"],
      [Meta(3601) EXCEPT !.status = "limit_exceeded"],
      [Meta(1800) EXCEPT !.status = "quota_exceeded", !.ts = "absent"],
      [Meta(1800) EXCEPT !.error_type = "USAGE_LIMIT"],
      [Meta(1800) EXCEPT !.error_type = "Rate_Limit", !.content = "quota exceeded"],
      [Meta(1800) EXCEPT !.error = TRUE],
      [Usage(1800, Sonnet, 100, 0, 0, 0) EXCEPT !.error = TRUE],
      [Meta(1800) EXCEPT !.error_code = "rate_limit_exceeded", !.status = "ok"],
      [Meta(1800) EXCEPT !.message = "string", !.status = "limit_exceeded"],
      Usage(0, Sonnet, 100, 20, 0, 0),
      [Usage(3601, Sonnet, 50, 0, 0, 0) EXCEPT !.error_type = "Quota_Exceeded"] }

BadLines ==
    { [BaseLine EXCEPT !.json = "invalid"],
      [BaseLine EXCEPT !.json = "scalar"],
      [BaseLine EXCEPT !.ts = "nonstring"],
      [BaseLine EXCEPT !.ts = "malformed"],
      [BaseLine EXCEPT !.ts = "naive"],
      BaseLine,
      [BaseLine EXCEPT !.message = "scalar"],
      [BaseLine EXCEPT !.message = "string"],
      [BaseLine EXCEPT !.usage = "nondict"],
      [BaseLine EXCEPT !.tokens = "null"],
      [BaseLine EXCEPT !.tokens = "string"],
      [BaseLine EXCEPT !.tokens = "string", !.model = "claude-3-opus"],
      [Meta(0) EXCEPT !.error_type = NonString, !.error_code = "quota_exceeded"] }

Corpora == {SessionLines, TokenLines, LimitLines, BadLines}

Lines == UNION Corpora

\* values datetime.now() returns during the run
Nows == {20000, 30000}

---------------------------------------------------------------------------
(* State machine *)

\* the prediction fields of ComprehensiveMetrics() at their defaults
NoPrediction == [minutes_to_next_limit |-> Zero, hours_to_next_limit |-> Zero,
                 tokens_to_next_limit |-> 0, current_session_risk_score |-> Zero]

\* no command-line run (calculate_comprehensive_metrics is called as a library)
NoRun == [entry |-> "none", command |-> "none",
          encoding |-> "utf-8", reconfigurable |-> TRUE, at |-> "none",
          found |-> "unknown", out |-> <<>>, exception |-> "none", exit_status |-> 0,
          five_hour_patterns |-> <<>>,
          prediction |-> NoPrediction, backtest |-> <<>>]

\* no prediction function called
NoCall == [fn |-> "none", called |-> FALSE, args |-> <<>>, result |-> <<>>]

SetDP(s) ==
    /\ all_messages' = s.all_messages
    /\ all_sessions' = s.all_sessions
    /\ limit_hits' = s.limit_hits
    /\ hourly_patterns' = s.hourly_patterns
    /\ model_usage' = s.model_usage
    /\ token_size_buckets' = s.token_size_buckets
    /\ all_timestamps' = s.all_timestamps
    /\ last_5h_messages' = s.last_5h_messages
    /\ total_cost' = s.total_cost
    /\ total_tokens' = s.total_tokens
    /\ total_input_tokens' = s.total_input_tokens
    /\ total_output_tokens' = s.total_output_tokens
    /\ total_cache_creation_tokens' = s.total_cache_creation_tokens
    /\ total_cache_read_tokens' = s.total_cache_read_tokens
    /\ current_session' = s.current_session
    /\ session_start' = s.session_start
    /\ next_id' = s.next_id

\* a DataProcessor and a ComprehensiveMetrics as constructed, no line read
Fresh ==
    /\ files_seen = 0
    /\ lines_read = 0
    /\ last_line = NoLine
    /\ last_exception = "none"
    /\ all_messages = NewDP.all_messages
    /\ all_sessions = NewDP.all_sessions
    /\ limit_hits = NewDP.limit_hits
    /\ hourly_patterns = NewDP.hourly_patterns
    /\ model_usage = NewDP.model_usage
    /\ token_size_buckets = NewDP.token_size_buckets
    /\ all_timestamps = NewDP.all_timestamps
    /\ last_5h_messages = NewDP.last_5h_messages
    /\ total_cost = NewDP.total_cost
    /\ total_tokens = NewDP.total_tokens
    /\ total_input_tokens = NewDP.total_input_tokens
    /\ total_output_tokens = NewDP.total_output_tokens
    /\ total_cache_creation_tokens = NewDP.total_cache_creation_tokens
    /\ total_cache_read_tokens = NewDP.total_cache_read_tokens
    /\ current_session = NewDP.current_session
    /\ session_start = NewDP.session_start
    /\ next_id = NewDP.next_id
    /\ metrics = ZeroMetrics
    /\ further_calls = 0

\* calculate_comprehensive_metrics(files) called directly: no command line, no
\* prediction call
Init ==
    /\ corpus \in Corpora
    /\ pc = "files"
    /\ Fresh
    /\ run = NoRun
    /\ pred = NoCall

\* _process_single_file: open() succeeds
OpenFile ==
    /\ pc = "files"
    /\ files_seen < MaxFiles
    /\ pc' = "lines"
    /\ files_seen' = files_seen + 1
    /\ UNCHANGED <<corpus, lines_read, last_line, last_exception, dpVars, metrics>>
    /\ UNCHANGED callVars

\* _process_single_file: open() raises FileNotFoundError or PermissionError
UnreadableFile ==
    /\ pc = "files"
    /\ files_seen < MaxFiles
    /\ files_seen' = files_seen + 1
    /\ UNCHANGED <<corpus, pc, lines_read, last_line, last_exception, dpVars, metrics>>
    /\ UNCHANGED callVars

\* one iteration of `for line in f`: _process_line(line)
ReadLine ==
    /\ pc = "lines"
    /\ lines_read < MaxLines
    /\ \E line \in corpus, now \in Nows :
          LET r == _process_line(DP, line, now)
          IN  /\ SetDP(r)
              /\ last_line' = line
              /\ last_exception' = r.exc
              /\ pc' = IF r.exc = "none" THEN "lines" ELSE "crashed"
    /\ lines_read' = lines_read + 1
    /\ UNCHANGED <<corpus, files_seen, metrics>>
    /\ UNCHANGED callVars

\* the file is exhausted
EndOfFile ==
    /\ pc = "lines"
    /\ pc' = "files"
    /\ UNCHANGED <<corpus, files_seen, lines_read, last_line, last_exception, dpVars, metrics>>
    /\ UNCHANGED callVars

\* process_files without the final append of the open session
FinishWithoutFinalSession ==
    /\ pc = "files"
    /\ pc' = "done"
    /\ UNCHANGED <<corpus, files_seen, lines_read, last_line, last_exception, metrics, dpVars>>
    /\ UNCHANGED callVars

\* process_files after its loop: the open session is appended
Finish ==
    /\ pc = "files"
    /\ pc' = "done"
    /\ all_sessions' = IF current_session.open
                       THEN Append(all_sessions, current_session) ELSE all_sessions
    /\ UNCHANGED <<corpus, files_seen, lines_read, last_line, last_exception, metrics,
                   all_messages, limit_hits, hourly_patterns, model_usage,
                   token_size_buckets, all_timestamps, last_5h_messages,
                   total_cost, total_tokens, total_input_tokens, total_output_tokens,
                   total_cache_creation_tokens, total_cache_read_tokens,
                   current_session, session_start, next_id>>
    /\ UNCHANGED callVars

\* MetricsCalculator(processor).calculate_metrics() after a completed ingestion
CalculateMetrics ==
    /\ pc = "done"
    /\ all_timestamps' = SortTimestamps(all_timestamps)
    /\ metrics' = calculate_metrics(DP)
    /\ UNCHANGED <<corpus, pc, files_seen, lines_read, last_line, last_exception,
                   all_messages, all_sessions, limit_hits, hourly_patterns, model_usage,
                   token_size_buckets, last_5h_messages,
                   total_cost, total_tokens, total_input_tokens, total_output_tokens,
                   total_cache_creation_tokens, total_cache_read_tokens,
                   current_session, session_start, next_id>>
    /\ UNCHANGED callVars

Next == OpenFile \/ UnreadableFile \/ ReadLine \/ EndOfFile \/ Finish \/ CalculateMetrics

Spec == Init /\ [][Next]_vars

\* process_files(files) called once more on the processor of a completed call:
\* the loop starts over a new list of files, the fields are as the last call left
\* them
ProcessFilesAgain ==
    /\ pc = "done"
    /\ further_calls < MaxCalls
    /\ further_calls' = further_calls + 1
    /\ pc' = "files"
    /\ files_seen' = 0
    /\ UNCHANGED <<corpus, lines_read, last_line, last_exception, dpVars, metrics, run, pred>>

RepeatNext == Next \/ ProcessFilesAgain

\* a DataProcessor used for more than one call of process_files
RepeatSpec == Init /\ [][RepeatNext]_vars

---------------------------------------------------------------------------
(* Properties of the ingestion *)

NonDecreasing(seq) == \A i \in 1..(Len(seq) - 1) : seq[i].time <= seq[i + 1].time

HasTimestamp(m) == m.timestamp.set

\* the messages that carry a timestamp, in ingestion order
TimestampedMessages == SelectSeq(all_messages, HasTimestamp)

\* the sessions of all_sessions that hold the message object `id`
SessionsHolding(id) ==
    { k \in 1..Len(all_sessions) :
        \E j \in 1..Len(all_sessions[k].messages) : all_sessions[k].messages[j].id = id }

\* all_timestamps is in ingestion order until calculate_metrics sorts it
Ingested == pc = "done" /\ ~metrics.calculated

\* C1 (the claim as stated; the code violates it): when every timestamped line is
\* a usage message and every gap between consecutive message timestamps is at
\* most 3600 seconds, all_sessions holds exactly one session after process_files.
C1_GapsWithinHourOneSession ==
    ( /\ Ingested
      /\ all_messages # <<>>
      /\ Len(TimestampedMessages) = Len(all_messages)
      /\ Len(all_timestamps) = Len(all_messages)
      /\ \A i \in 1..(Len(all_messages) - 1) :
            /\ all_messages[i + 1].timestamp.time - all_messages[i].timestamp.time >= 0
            /\ all_messages[i + 1].timestamp.time - all_messages[i].timestamp.time <= SessionGap )
    => Len(all_sessions) = 1

\* C2: after process_files over lines whose timestamps do not decrease, two
\* consecutive timestamped usage messages more than 3600 seconds apart are in two
\* different sessions; and when the first session starts at the first message's
\* timestamp (the first two messages open the input), two first messages less
\* than 3600 seconds apart are in the same session.
C2_Segmentation ==
    (Ingested /\ NonDecreasing(all_timestamps)) =>
        LET tm == TimestampedMessages
        IN  /\ \A i \in 1..(Len(tm) - 1) :
                  tm[i + 1].timestamp.time - tm[i].timestamp.time > SessionGap
                  => /\ SessionsHolding(tm[i].id) # {}
                     /\ SessionsHolding(tm[i + 1].id) # {}
                     /\ SessionsHolding(tm[i].id) \cap SessionsHolding(tm[i + 1].id) = {}
            /\ ( /\ Len(tm) >= 2
                 /\ all_sessions[1].start = tm[1].timestamp
                 /\ tm[2].timestamp.time - tm[1].timestamp.time < SessionGap )
               => SessionsHolding(tm[1].id) \cap SessionsHolding(tm[2].id) # {}

C2_Witness ==
    /\ Ingested
    /\ NonDecreasing(all_timestamps)
    /\ Len(TimestampedMessages) = 3
    /\ TimestampedMessages[2].timestamp.time - TimestampedMessages[1].timestamp.time = 1800
    /\ TimestampedMessages[3].timestamp.time - TimestampedMessages[2].timestamp.time = 3601
    /\ SessionsHolding(TimestampedMessages[1].id) = {1}
    /\ SessionsHolding(TimestampedMessages[2].id) = {1}
    /\ SessionsHolding(TimestampedMessages[3].id) = {2}

\* C3 (the claim as stated; the code violates it): after process_files no message
\* of one session has a timestamp strictly between the timestamps of two messages
\* of another session.
C3_SessionsDoNotOverlap ==
    pc = "done" =>
        \A a, b \in 1..Len(all_sessions) :
            a # b =>
                \A i \in 1..Len(all_sessions[a].messages) :
                    LET m == all_sessions[a].messages[i]
                        other == all_sessions[b].messages
                    IN  ~ \E j, k \in 1..Len(other) :
                            /\ m.timestamp.set /\ other[j].timestamp.set /\ other[k].timestamp.set
                            /\ other[j].timestamp.time < m.timestamp.time
                            /\ m.timestamp.time < other[k].timestamp.time

BucketNames == {"small", "medium", "large", "xlarge"}

\* the buckets that hold the message object `id`
BucketsHolding(id) ==
    { b \in BucketNames :
        \E j \in 1..Len(token_size_buckets[b]) : token_size_buckets[b][j].id = id }

UnknownModelUsage(line) ==
    /\ line.json = "object" /\ line.type = "assistant"
    /\ line.message = "object" /\ line.usage = "object" /\ line.tokens = "numeric"
    /\ line.model \notin DOMAIN PRICING

\* a step in which _process_line handled the line last_line'
LineHandled == lines_read' = lines_read + 1

\* C6: a usage line whose model is no key of PRICING, once _process_line has
\* handled it, has appended one message of cost 0, left total_cost as it was, and
\* added its four token counts in full to total_tokens and to the four
\* per-category totals.
C6_UnknownModelCostsNothing ==
    [][ (LineHandled /\ pc' # "crashed" /\ UnknownModelUsage(last_line')) =>
            LET line == last_line'
                tokens == line.input_tokens + line.output_tokens
                          + line.cache_creation_input_tokens + line.cache_read_input_tokens
            IN  /\ Len(all_messages') = Len(all_messages) + 1
                /\ all_messages'[Len(all_messages')].cost = 0
                /\ all_messages'[Len(all_messages')].tokens = tokens
                /\ total_cost' = total_cost
                /\ total_tokens' = total_tokens + tokens
                /\ total_input_tokens' = total_input_tokens + line.input_tokens
                /\ total_output_tokens' = total_output_tokens + line.output_tokens
                /\ total_cache_creation_tokens'
                   = total_cache_creation_tokens + line.cache_creation_input_tokens
                /\ total_cache_read_tokens'
                   = total_cache_read_tokens + line.cache_read_input_tokens ]_vars

C6_Witness ==
    /\ pc = "lines"
    /\ UnknownModelUsage(last_line)
    /\ last_line.input_tokens = 500000
    /\ all_messages[Len(all_messages)].cost = 0
    /\ total_input_tokens >= 500000
    /\ total_cost > 0

\* C7: the cache_hit_rate calculate_metrics returns lies in [0, 1]; it is
\* cache_read / (input + cache_creation + cache_read) when that sum is positive
\* and 0 when it is 0.
C7_CacheHitRate ==
    metrics.calculated =>
        LET input_like == total_input_tokens + total_cache_creation_tokens
                          + total_cache_read_tokens
            rate == metrics.cache_hit_rate
        IN  /\ rate.den > 0
            /\ 0 <= rate.num /\ rate.num <= rate.den
            /\ input_like > 0 => rate = Frac(total_cache_read_tokens, input_like)
            /\ input_like = 0 => rate.num = 0

C7_Witness ==
    /\ metrics.calculated
    /\ metrics.cache_hit_rate.num > 0
    /\ metrics.cache_hit_rate.num < metrics.cache_hit_rate.den
    /\ total_cache_creation_tokens > 0

\* the condition of the claim, written from its words
ClaimedLimitCondition(line) ==
    \/ line.error_code = "quota_exceeded" \/ line.error_code = "usage_limit_exceeded"
    \/ line.status = "limit_exceeded" \/ line.status = "quota_exceeded"
    \/ Lower(line.error_type) = "usage_limit" \/ Lower(line.error_type) = "quota_exceeded"
    \/ (line.error /\ line.usage = "absent")

\* the line carries a timestamp that parses and its message is an object
TimestampedObjectMessage(line) ==
    line.json = "object" /\ line.ts \in {"naive", "aware"} /\ line.message = "object"

\* the line gets through the session boundary and the limit check without an
\* exception
PassesLimitCheck(line) ==
    /\ ~(session_start.set /\ session_start.aware # (line.ts = "aware"))
    /\ line.error_type # NonString

Contents == {"hello", "usage limit", "quota exceeded", "limit exceeded"}

\* C9: the content of a line's message has no influence: handling a line leaves
\* the processor in the same state whatever the content field holds, so two runs
\* over inputs that differ only in content end in the same state.
C9_ContentHasNoInfluence ==
    [][ LineHandled =>
            \A c \in Contents, now \in Nows :
                _process_line(DP, [last_line' EXCEPT !.content = c], now)
                = _process_line(DP, last_line', now) ]_vars

C9_Witness ==
    /\ pc = "lines"
    /\ last_line.content = "quota exceeded"
    /\ last_line.message = "object"
    /\ last_line.ts = "aware"
    /\ current_session.open
    /\ limit_hits = <<>>

\* C10 (the claim as stated; the code violates it): no line makes process_files
\* raise.
C10_NeverAborts == pc # "crashed"

---------------------------------------------------------------------------
(* Skipped lines and the session list *)

\* _process_line caught the exception the line raised
Skipped(line) == \A now \in Nows : TryProcessLine(DP, line, now).exc \in Caught

\* C11: a line whose exception _process_line catches leaves every field of the
\* DataProcessor as it was before the line.
C11_SkippedLineChangesNothing ==
    [][ (LineHandled /\ Skipped(last_line')) => UNCHANGED dpVars ]_vars

C11_Witness ==
    /\ pc = "lines"
    /\ last_line.ts = "malformed"
    /\ last_exception = "none"
    /\ all_messages # <<>>
    /\ current_session.open

\* C12: after process_files has returned, the sessions opened during the
\* ingestion (numbered 1..next_id in the order they were opened), the one still
\* open at the last line included, are in all_sessions once each, in that order.
C12_SessionsOnceInOrder ==
    pc = "done" =>
        /\ Len(all_sessions) = next_id
        /\ \A k \in 1..Len(all_sessions) : all_sessions[k].id = k

C12_Witness ==
    /\ pc = "done"
    /\ next_id = 2
    /\ Len(all_sessions) = 2
    /\ current_session.open /\ current_session.id = 2
    /\ all_sessions[1].messages # <<>>
    /\ all_sessions[2].messages # <<>>

---------------------------------------------------------------------------
(* Repeated calculation *)

\* C20: calculate_metrics is idempotent: once it has returned a record, a further
\* call on the processor as the first call left it returns a record equal to it in
\* every field.
C20_CalculateMetricsIdempotent ==
    metrics.calculated => calculate_metrics(DP) = metrics

C20_Witness ==
    /\ metrics.calculated
    /\ Len(all_messages) >= 2
    /\ all_messages[1].timestamp.time > all_messages[2].timestamp.time
    /\ all_timestamps[1].time < all_timestamps[Len(all_timestamps)].time
    /\ metrics.per_day_spend_with_cache.den = 2
    /\ metrics.total_cost > 0

---------------------------------------------------------------------------
(* Command-line entry points: main of cli.py and of claude_comprehensive_metrics.py *)

\* choices of the `command` argument; "none" is a run without the argument
Choices(entry) ==
    IF entry = "cli" THEN {"none", "metrics", "predict", "advanced"}
    ELSE {"none", "metrics", "predict"}

\* args.command (default='metrics')
ArgsCommand(r) == IF r.command = "none" THEN "metrics" ELSE r.command

\* every line written here starts with a character outside ASCII
CanEncode(r) == r.encoding = "utf-8"

Written(text, substituted) == [text |-> text, substituted |-> substituted]

\* print(text): UnicodeEncodeError when stdout cannot encode the text
print(r, text) ==
    IF CanEncode(r) THEN [r EXCEPT !.out = Append(@, Written(text, FALSE))]
    ELSE [r EXCEPT !.at = "raised", !.exception = "UnicodeEncodeError"]

\* safe_print(text): on UnicodeEncodeError the ASCII replacement is printed
safe_print(r, text) ==
    [r EXCEPT !.out = Append(@, Written(text, ~CanEncode(r)))]

\* the print of the entry point: safe_print in cli.py, print in the script
EntryPrint(r, text) == IF r.entry = "cli" THEN safe_print(r, text) ELSE print(r, text)

\* the exception in r.exception leaves main: the traceback goes to stderr and the
\* exit status is 1
Traceback(r) == [r EXCEPT !.at = "exited", !.exit_status = 1,
                          !.out = Append(@, Written("traceback", FALSE))]

\* r after a step that may have raised
Continue(r, at) == IF r.at = "raised" THEN Traceback(r) ELSE [r EXCEPT !.at = at]

Exit(r, status) == [r EXCEPT !.at = "exited", !.exit_status = status]

\* the runs: entry point, argument, and stdout (its encoding, and whether
\* sys.stdout.reconfigure(encoding='utf-8') succeeds)
Runs ==
    { [NoRun EXCEPT !.entry = e, !.command = c,
                    !.encoding = enc, !.reconfigurable = rc, !.at = "start"] :
        e \in {"cli", "legacy"}, c \in {"none", "metrics", "predict", "advanced"},
        enc \in {"utf-8", "ascii"}, rc \in BOOLEAN }

\* lines of a run: two limit hits recorded against their time order, usage before
\* and between them, a limit hit with no usage before it, a usage line with a
\* naive timestamp, a line whose timestamp is not a string
CliLines ==
    { [Usage(0, Sonnet, 100, 20, 0, 0) EXCEPT !.ts = "aware"],
      Usage(19500, Sonnet, 5000, 0, 0, 0),
      [Meta(18000) EXCEPT !.error_code = "quota_exceeded"],
      [Meta(14400) EXCEPT !.status = "limit_exceeded"],
      [Meta(0) EXCEPT !.error = TRUE],
      [Usage(0, Sonnet, 100, 20, 0, 0) EXCEPT !.ts = "naive"],
      [BaseLine EXCEPT !.ts = "nonstring"] }

CliInit ==
    /\ corpus = CliLines
    /\ pc = "idle"
    /\ Fresh
    /\ run \in { r \in Runs : r.encoding = "utf-8" => r.reconfigurable }
    /\ pred = NoCall

ProcessorUnchanged ==
    UNCHANGED <<corpus, files_seen, lines_read, last_line, last_exception, dpVars, metrics, pred,
                further_calls>>

\* parse_args rejects an argument outside the choices: usage on stderr, status 2
ArgumentRejected ==
    /\ run.at = "start"
    /\ run.command \notin Choices(run.entry)
    /\ run' = Exit([run EXCEPT !.out = Append(@, Written("usage", FALSE))], 2)
    /\ UNCHANGED pc
    /\ ProcessorUnchanged

\* main up to find_project_files: stdout is reconfigured (cli.py only), the
\* banner is printed, in cli.py followed by the privacy line
Banner ==
    /\ run.at = "start"
    /\ run.command \in Choices(run.entry)
    /\ LET r0 == IF run.entry = "cli" /\ run.reconfigurable
                 THEN [run EXCEPT !.encoding = "utf-8"] ELSE run
           r1 == EntryPrint(r0, "banner")
           r2 == IF run.entry = "cli" THEN safe_print(r1, "privacy") ELSE r1
       IN  run' = Continue(r2, "discover")
    /\ UNCHANGED pc
    /\ ProcessorUnchanged

\* find_project_files() returns []: cli.py calls sys.exit(1), the script returns
NoFilesFound ==
    /\ run.at = "discover"
    /\ LET r1 == EntryPrint([run EXCEPT !.found = "none"], "no files")
       IN  run' = IF r1.at = "raised" THEN Traceback(r1)
                  ELSE IF run.entry = "cli" THEN Exit(r1, 1)
                  ELSE Exit(r1, 0)
    /\ UNCHANGED pc
    /\ ProcessorUnchanged

\* find_project_files() returns files: the count is printed and
\* calculate_comprehensive_metrics(files) is entered, where the ingestion prints
\* its header with print
FilesFound ==
    /\ run.at = "discover"
    /\ LET r1 == EntryPrint([run EXCEPT !.found = "some"], "analyzing")
           r2 == IF r1.at = "raised" THEN r1 ELSE print(r1, "ingestion")
       IN  /\ run' = Continue(r2, "ingest")
           /\ pc' = IF r2.at = "raised" THEN pc ELSE "files"
    /\ ProcessorUnchanged

\* an exception _process_line does not catch leaves main
IngestionAborts ==
    /\ run.at = "ingest"
    /\ pc = "crashed"
    /\ run' = Traceback([run EXCEPT !.exception = last_exception])
    /\ UNCHANGED pc
    /\ ProcessorUnchanged

\* the rest of calculate_comprehensive_metrics after calculate_metrics
Analyse ==
    /\ run.at = "ingest"
    /\ pc = "done"
    /\ metrics.calculated
    /\ \E now \in Nows :
          LET five_hour_patterns == analyze_five_hour_patterns(DP)
              current == get_current_three_hour_metrics(DP, now)
          IN  run' = IF current.exc # "none"
                     THEN Traceback([run EXCEPT !.exception = current.exc])
                     ELSE [run EXCEPT !.at = "report",
                                      !.five_hour_patterns = five_hour_patterns,
                                      !.prediction = calculate_prediction_metrics(
                                          five_hour_patterns, current.current_3h_tokens)]
    /\ UNCHANGED pc
    /\ ProcessorUnchanged

\* the report of metrics or predict: print_metrics_only, print_predictions_only,
\* each written with print
Report ==
    /\ run.at = "report"
    /\ ArgsCommand(run) \in {"metrics", "predict"}
    /\ LET r1 == print(run, ArgsCommand(run))
       IN  run' = Continue(r1, IF ArgsCommand(run) = "predict" THEN "backtest" ELSE "complete")
    /\ UNCHANGED pc
    /\ ProcessorUnchanged

\* print_advanced_predictions(analysis_data, five_hour_patterns): the function
\* cli.py imports from predictions.py, taken to print the advanced report the way
\* the other reports are printed
AdvancedReport ==
    /\ run.at = "report"
    /\ ArgsCommand(run) = "advanced"
    /\ LET r1 == print(run, "advanced")
       IN  run' = Continue(r1, "complete")
    /\ UNCHANGED pc
    /\ ProcessorUnchanged

\* backtest_predictions(analysis_data['all_messages'], analysis_data['limit_hits'])
Backtest ==
    /\ run.at = "backtest"
    /\ LET r1 == print(run, "backtest")
       IN  run' = Continue([r1 EXCEPT !.backtest = backtest_predictions(all_messages, limit_hits)],
                           "complete")
    /\ UNCHANGED pc
    /\ ProcessorUnchanged

\* the completion banner; main returns
Completion ==
    /\ run.at = "complete"
    /\ LET r1 == EntryPrint(run, "complete")
       IN  run' = IF r1.at = "raised" THEN Traceback(r1) ELSE Exit(r1, 0)
    /\ UNCHANGED pc
    /\ ProcessorUnchanged

CliNext ==
    \/ ArgumentRejected \/ Banner \/ NoFilesFound \/ FilesFound
    \/ OpenFile \/ UnreadableFile \/ ReadLine \/ EndOfFile \/ Finish \/ CalculateMetrics
    \/ IngestionAborts \/ Analyse \/ Report \/ AdvancedReport \/ Backtest \/ Completion

CliSpec == CliInit /\ [][CliNext]_vars

---------------------------------------------------------------------------
(* Advanced predictions: ProbabilisticPredictor and AdvancedPredictionEngine     *)
(* of advanced_predictions.py.  Floats are exact quotients [num, den], den > 0. *)

QLe(a, b) == a.num * b.den <= b.num * a.den
QEq(a, b) == a.num * b.den = b.num * a.den
QMin(a, b) == IF QLe(a, b) THEN a ELSE b
QMax(a, b) == IF QLe(a, b) THEN b ELSE a
QAdd(a, b) == Frac(a.num * b.den + b.num * a.den, a.den * b.den)
QMul(a, b) == Frac(a.num * b.num, a.den * b.den)
\* n / d for d # 0
QDiv(n, d) == IF d > 0 THEN Frac(n, d) ELSE Frac(-n, -d)

\* the values of SessionContext
Contexts == {"exploration", "coding", "debugging", "optimization", "unknown"}

\* context_multipliers of _calculate_risk_score
ContextMultiplier(context) ==
    CASE context = "exploration"  -> Frac(12, 10)
      [] context = "coding"       -> Frac(10, 10)
      [] context = "debugging"    -> Frac(15, 10)
      [] context = "optimization" -> Frac(8, 10)
      [] context = "unknown"      -> Frac(13, 10)
      [] OTHER                    -> Frac(10, 10)

\* what a call did: the value it returned, or the exception it raised
Returned(v) == [exc |-> "none", value |-> v]
Raised(e) == [exc |-> e, value |-> Zero]

\* _calculate_risk_score; mean_prediction and uncertainty are quotients,
\* rate_acceleration is features.rate_acceleration
_calculate_risk_score(mean_prediction, uncertainty, rate_acceleration, context, horizon) ==
    IF horizon = 0 THEN Raised("ZeroDivisionError")
    ELSE LET time_risk ==
                 QMax(Zero, QDiv((horizon * mean_prediction.den - mean_prediction.num) * 100,
                                 horizon * mean_prediction.den))
             uncertainty_risk == QMin(Frac(30, 1), Frac(uncertainty.num, uncertainty.den * 10))
             acceleration_risk ==
                 IF rate_acceleration.num > 0
                 THEN QMin(Frac(20, 1), QMul(rate_acceleration, Frac(10, 1)))
                 ELSE Zero
             total_risk == QMul(QAdd(QAdd(time_risk, uncertainty_risk), acceleration_risk),
                                ContextMultiplier(context))
         IN  Returned(QMin(Frac(100, 1), QMax(Zero, total_risk)))

\* least quotient mean / uncertainty at which variance / mean ** 2 + 1 is 1.0 in
\* double precision, so that sigma is 0.0
SigmaVanishes == 94906266

\* values of 0.5 * (1 + erf_approx(...)): the polynomial is not evaluated here,
\* the choice covers its range and a margin on both sides
CdfValues == {Frac(-1, 1000), Frac(1, 2), Frac(1001, 1000)}

\* _calculate_probability_within_horizon: the set of its possible outcomes.
\* math.log(0) (a zero mean, a horizon <= 0) raises ValueError; the division by
\* sigma raises ZeroDivisionError when sigma is 0.0.
_calculate_probability_within_horizon(mean_prediction, uncertainty, horizon) ==
    IF uncertainty.num <= 0
    THEN { Returned(IF QLe(mean_prediction, Frac(horizon, 1)) THEN Frac(1, 1) ELSE Zero) }
    ELSE IF mean_prediction.num = 0 THEN { Raised("ValueError") }
    ELSE IF horizon <= 0 THEN { Raised("ValueError") }
    ELSE IF (mean_prediction.num * uncertainty.den) \div (mean_prediction.den * uncertainty.num)
            >= SigmaVanishes
    THEN { Raised("ZeroDivisionError") }
    ELSE { Returned(QMin(Frac(1, 1), QMax(Zero, cdf))) : cdf \in CdfValues }

PredictionResult(mean, lower, upper, probability, risk, context, horizon) ==
    [mean_minutes |-> mean, confidence_interval |-> <<lower, upper>>,
     probability_within_hour |-> probability, risk_score |-> risk,
     context |-> context, horizon_minutes |-> horizon]

\* ProbabilisticPredictor._fallback_prediction
_fallback_prediction(horizon, context) ==
    PredictionResult(Frac(horizon * 2, 1), Frac(horizon, 2), Frac(horizon * 4, 1),
                     Frac(1, 10), Frac(20, 1), context, horizon)

Range(seq) == { seq[i] : i \in 1..Len(seq) }

\* the engine falls back on the predictor's fallback values
FallbackOfPredictor(horizons) ==
    [horizon \in Range(horizons) |-> _fallback_prediction(horizon, "unknown")]

\* AdvancedPredictionEngine._generate_fallback_predictions: a dictionary keyed by
\* horizon
_generate_fallback_predictions(horizons) ==
    [horizon \in Range(horizons) |->
        PredictionResult(Frac(horizon * 3, 1), Frac(horizon, 1), Frac(horizon * 6, 1),
                         Frac(5, 100), Frac(10, 1), "unknown", horizon)]

\* the thresholds of context_signatures, in the order of the dictionary
SignatureOrder == <<"exploration", "coding", "debugging", "optimization">>

context_signatures(context) ==
    CASE context = "exploration" ->
            [token_variance_threshold |-> Frac(8, 10), message_gap_threshold |-> 300,
             complexity_increasing |-> TRUE, cache_hit_rate |-> Frac(2, 10)]
      [] context = "coding" ->
            [token_variance_threshold |-> Frac(3, 10), message_gap_threshold |-> 120,
             complexity_increasing |-> FALSE, cache_hit_rate |-> Frac(6, 10)]
      [] context = "debugging" ->
            [token_variance_threshold |-> Frac(12, 10), message_gap_threshold |-> 60,
             complexity_increasing |-> FALSE, cache_hit_rate |-> Frac(4, 10)]
      [] context = "optimization" ->
            [token_variance_threshold |-> Frac(4, 10), message_gap_threshold |-> 180,
             complexity_increasing |-> FALSE, cache_hit_rate |-> Frac(7, 10)]

QAbs(a) == IF a.num < 0 THEN Frac(-a.num, a.den) ELSE a
QLt(a, b) == a.num * b.den < b.num * a.den
QSub(a, b) == QAdd(a, Frac(-b.num, b.den))

\* _calculate_message_gaps: the gaps in seconds between neighbours that both
\* carry a timestamp; the timestamps of one list are all naive or all aware
_calculate_message_gaps(messages) ==
    LET pairs == SelectSeq([i \in 1..(Len(messages) - 1) |-> i + 1],
                           LAMBDA i : messages[i].timestamp.set /\ messages[i - 1].timestamp.set)
    IN  [k \in 1..Len(pairs) |->
            messages[pairs[k]].timestamp.time - messages[pairs[k] - 1].timestamp.time]

RECURSIVE SumSeq(_)
SumSeq(seq) == IF seq = <<>> THEN 0 ELSE Head(seq) + SumSeq(Tail(seq))

\* _calculate_complexity_trend: the numerator of the regression slope over the
\* tokens of the last 5 messages; its denominator n sum(x^2) - sum(x)^2 is
\* positive from 2 messages on, so the slope has the sign of the numerator
_calculate_complexity_trend(messages) ==
    IF Len(messages) < 3 THEN 0
    ELSE LET first == IF Len(messages) > 5 THEN Len(messages) - 4 ELSE 1
             y == [i \in 1..(Len(messages) - first + 1) |-> messages[first + i - 1].tokens]
             n == Len(y)
             sum_x == SumSeq([i \in 1..n |-> i - 1])
             sum_xy == SumSeq([i \in 1..n |-> (i - 1) * y[i]])
         IN  n * sum_xy - sum_x * SumSeq(y)

\* the score of one signature in classify
Score(context, features, recent_messages) ==
    LET signature == context_signatures(context)
        gaps == _calculate_message_gaps(recent_messages)
        avg_gap == IF gaps # <<>> THEN Frac(SumSeq(gaps), Len(gaps)) ELSE Zero
        complexity_trend == _calculate_complexity_trend(recent_messages)
    IN  (IF QLe(features.token_rate_variance, signature.token_variance_threshold)
         THEN 1 ELSE 0)
        + (IF QLt(QAbs(QSub(avg_gap, Frac(signature.message_gap_threshold, 1))), Frac(60, 1))
           THEN 1 ELSE 0)
        + (IF QLt(QAbs(QSub(features.cache_hit_rate, signature.cache_hit_rate)), Frac(2, 10))
           THEN 1 ELSE 0)
        + (IF (complexity_trend > 0) = signature.complexity_increasing THEN 1 ELSE 0)

\* max(scores.keys(), key=...): a later key replaces the best only with a greater
\* score
RECURSIVE BestOf(_, _, _, _)
BestOf(order, best, features, recent_messages) ==
    IF order = <<>> THEN best
    ELSE BestOf(Tail(order),
                IF Score(Head(order), features, recent_messages)
                      > Score(best, features, recent_messages)
                THEN Head(order) ELSE best,
                features, recent_messages)

\* max with a later key replacing the best also at an equal score
RECURSIVE BestOfLast(_, _, _, _)
BestOfLast(order, best, features, recent_messages) ==
    IF order = <<>> THEN best
    ELSE BestOfLast(Tail(order),
                    IF Score(Head(order), features, recent_messages)
                          >= Score(best, features, recent_messages)
                    THEN Head(order) ELSE best,
                    features, recent_messages)

ClassifyLastMaximal(features, recent_messages) ==
    IF Len(recent_messages) < 3 THEN "unknown"
    ELSE LET best_context == BestOfLast(Tail(SignatureOrder), Head(SignatureOrder),
                                        features, recent_messages)
         IN  IF Score(best_context, features, recent_messages) > 1
             THEN best_context ELSE "unknown"

\* SessionContextClassifier.classify
classify(features, recent_messages) ==
    IF Len(recent_messages) < 3 THEN "unknown"
    ELSE LET best_context == BestOf(Tail(SignatureOrder), Head(SignatureOrder),
                                    features, recent_messages)
         IN  IF Score(best_context, features, recent_messages) > 1
             THEN best_context ELSE "unknown"

\* context_models of ProbabilisticPredictor
context_models(context) ==
    CASE context = "exploration"  -> [base_multiplier |-> Frac(15, 10),
                                      variance_penalty |-> Frac(20, 10)]
      [] context = "coding"       -> [base_multiplier |-> Frac(10, 10),
                                      variance_penalty |-> Frac(10, 10)]
      [] context = "debugging"    -> [base_multiplier |-> Frac(13, 10),
                                      variance_penalty |-> Frac(15, 10)]
      [] context = "optimization" -> [base_multiplier |-> Frac(8, 10),
                                      variance_penalty |-> Frac(8, 10)]
      [] context = "unknown"      -> [base_multiplier |-> Frac(18, 10),
                                      variance_penalty |-> Frac(25, 10)]

RECURSIVE GCD(_, _)
GCD(a, b) == IF b = 0 THEN a ELSE GCD(b, a % b)

\* the same quotient in lowest terms
Reduce(q) ==
    LET g == GCD(IF q.num < 0 THEN -q.num ELSE q.num, q.den)
    IN  Frac(q.num \div g, q.den \div g)

RECURSIVE QSum(_)
QSum(seq) == IF seq = <<>> THEN Zero ELSE Reduce(QAdd(Head(seq), QSum(Tail(seq))))

\* the value of a key the pattern dictionary does not carry
Missing == -1

\* pattern.get('time_to_limit_minutes', 180)
TimeToLimit(pattern) ==
    IF pattern.time_to_limit_minutes = Missing THEN 180 ELSE pattern.time_to_limit_minutes

\* p.get('avg_tokens_per_minute', 0)
HistoricalRate(pattern) ==
    IF pattern.avg_tokens_per_minute = Missing THEN 0 ELSE pattern.avg_tokens_per_minute

\* the recency-weighted mean of the times to the limit
WeightedTime(historical_patterns) ==
    LET n == Len(historical_patterns)
        total_weight == QSum([i \in 1..n |-> Frac(1, i)])
        base_time == QSum([i \in 1..n |-> Frac(TimeToLimit(historical_patterns[i]), i)])
    IN  Reduce(QMul(base_time, Frac(total_weight.den, total_weight.num)))

\* _calculate_base_prediction for a non-empty history: statistics.mean raises
\* StatisticsError on the empty list of positive rates
_calculate_base_prediction(historical_patterns, features) ==
    LET base_time == WeightedTime(historical_patterns)
        historical_rates == [i \in 1..Len(historical_patterns) |->
                                HistoricalRate(historical_patterns[i])]
        positive == SelectSeq(historical_rates, LAMBDA r : r > 0)
    IN  IF features.tokens_per_minute > 0
        THEN IF positive = <<>> THEN Raised("StatisticsError")
             ELSE Returned(QMax(Frac(5, 1),
                      Reduce(QMul(base_time, Frac(SumSeq(positive),
                                                  Len(positive) * features.tokens_per_minute)))))
        ELSE Returned(QMax(Frac(5, 1), base_time))

\* the greatest r with r * r <= x
ISqrt(x) == CHOOSE r \in 0..x : r * r <= x /\ (r + 1) * (r + 1) > x

\* statistics.stdev(times) for 2 or more times: the root of
\* (n sum(t^2) - sum(t)^2) / (n (n - 1)); where the root is not rational the
\* value lies between the two quotients given
stdev(times) ==
    LET n == Len(times)
        numerator == n * SumSeq([i \in 1..n |-> times[i] * times[i]])
                     - SumSeq(times) * SumSeq(times)
        denominator == n * (n - 1)
        root == ISqrt(numerator * denominator)
    IN  IF root * root = numerator * denominator
        THEN { Reduce(Frac(root, denominator)) }
        ELSE { Reduce(Frac(root, denominator)), Reduce(Frac(root + 1, denominator)) }

\* _calculate_uncertainty: the set of its possible values
_calculate_uncertainty(features, model_params, historical_patterns) ==
    LET n == Len(historical_patterns)
        historical_stds ==
            IF n > 1 THEN stdev([i \in 1..n |-> TimeToLimit(historical_patterns[i])])
            ELSE { Frac(60, 1) }
        variance_adjustment ==
            QAdd(Frac(1, 1), QMul(features.token_rate_variance, model_params.variance_penalty))
        sample_size_adjustment == QMax(Frac(1, 1), Frac(3, n))
    IN  { QMin(Reduce(QMul(QMul(historical_std, variance_adjustment), sample_size_adjustment)),
               Frac(300, 1)) : historical_std \in historical_stds }

\* predict_time_to_limit for one horizon: the set of its possible outcomes
predict_time_to_limit(features, context, historical_patterns, horizon_minutes) ==
    IF historical_patterns = <<>>
    THEN { Returned(_fallback_prediction(horizon_minutes, context)) }
    ELSE LET base_prediction == _calculate_base_prediction(historical_patterns, features)
             model_params == context_models(context)
         IN  IF base_prediction.exc # "none" THEN { Raised(base_prediction.exc) }
             ELSE LET adjusted_prediction ==
                          Reduce(QMul(base_prediction.value, model_params.base_multiplier))
                  IN  UNION {
                        LET lower_bound == QMax(Frac(5, 1), Reduce(QSub(adjusted_prediction,
                                                                        uncertainty)))
                            upper_bound == Reduce(QAdd(adjusted_prediction, uncertainty))
                            probs == _calculate_probability_within_horizon(
                                         adjusted_prediction, uncertainty, horizon_minutes)
                            risk_score == _calculate_risk_score(
                                              adjusted_prediction, uncertainty,
                                              features.rate_acceleration, context,
                                              horizon_minutes)
                        IN  { IF prob.exc # "none" THEN Raised(prob.exc)
                              ELSE IF risk_score.exc # "none" THEN Raised(risk_score.exc)
                              ELSE Returned(PredictionResult(adjusted_prediction, lower_bound,
                                                             upper_bound, prob.value,
                                                             risk_score.value, context,
                                                             horizon_minutes)) :
                              prob \in probs } :
                        uncertainty \in _calculate_uncertainty(features, model_params,
                                                               historical_patterns) }

\* what BehavioralFeatureExtractor.extract_features can hand on for 2 or more
\* messages; the extraction is not evaluated here
Features ==
    { [tokens_per_minute |-> t, token_rate_variance |-> v, rate_acceleration |-> a,
       cache_hit_rate |-> c] :
        t \in {0, 50}, v \in {Zero, Frac(1, 2)}, a \in {Zero, Frac(1, 1)},
        c \in {Zero, Frac(65, 100)} }

\* the results the loop over horizons can collect, one per iteration
RECURSIVE ResultsOf(_, _, _, _)
ResultsOf(features, context, historical_patterns, horizons) ==
    IF horizons = <<>> THEN { <<>> }
    ELSE { <<o.value>> \o rest :
             o \in predict_time_to_limit(features, context, historical_patterns, Head(horizons)),
             rest \in ResultsOf(features, context, historical_patterns, Tail(horizons)) }

\* predictions[horizon] = prediction: a later entry replaces an earlier one
AsDictionary(horizons, results) ==
    [h \in Range(horizons) |->
        results[CHOOSE i \in 1..Len(horizons) :
                   horizons[i] = h /\ \A j \in 1..Len(horizons) : horizons[j] = h => j <= i]]

\* the loop over horizons of generate_predictions: the dictionaries it can build,
\* or the exception of the first horizon that raises
PredictionsFor(features, context, historical_patterns, horizons) ==
    LET raising == { i \in 1..Len(horizons) :
                       \E o \in predict_time_to_limit(features, context, historical_patterns,
                                                      horizons[i]) : o.exc # "none" }
    IN  IF raising # {}
        THEN LET first == CHOOSE i \in raising : \A j \in raising : i <= j
             IN  { Raised(o.exc) :
                     o \in { x \in predict_time_to_limit(features, context, historical_patterns,
                                                         horizons[first]) : x.exc # "none" } }
        ELSE { Returned(AsDictionary(horizons, results)) :
                 results \in ResultsOf(features, context, historical_patterns, horizons) }

\* AdvancedPredictionEngine.generate_predictions: the set of its possible outcomes
generate_predictions(recent_messages, historical_patterns, horizons) ==
    IF Len(recent_messages) < 2
    THEN { Returned(_generate_fallback_predictions(horizons)) }
    ELSE UNION { PredictionsFor(features, classify(features, recent_messages),
                                historical_patterns, horizons) :
                   features \in Features }

---------------------------------------------------------------------------
(* Calls of the prediction functions on their own *)

Call(fn, args) == [fn |-> fn, called |-> FALSE, args |-> args, result |-> Raised("none")]

\* a five-hour pattern with the given token total
Pattern(tokens) ==
    [total_tokens |-> tokens, total_messages |-> 1,
     limit_timestamp |-> Timestamp(0, TRUE), messages |-> <<>>]

PredictionMetricsCalls ==
    { Call("calculate_prediction_metrics",
           [five_hour_patterns |-> p, current_3h_tokens |-> c]) :
        p \in { <<>>, <<Pattern(0)>>, <<Pattern(10)>>, <<Pattern(100000)>>,
                <<Pattern(10), Pattern(100000)>> },
        c \in {0, 5, 6, 60000, 1000000} }

RiskScoreCalls ==
    { Call("_calculate_risk_score",
           [mean_prediction |-> m, uncertainty |-> u, rate_acceleration |-> a,
            context |-> c, horizon |-> h]) :
        m \in {1, 60, 10000}, u \in {0, 30, 1000},
        a \in {Frac(-1, 1), Zero, Frac(1, 2), Frac(5, 1)},
        c \in Contexts, h \in {-5, 0, 1, 60} }

ProbabilityCalls ==
    { Call("_calculate_probability_within_horizon",
           [mean_prediction |-> m, uncertainty |-> u, horizon |-> h]) :
        m \in {1, 60, 180, 1000000000}, u \in {-1, 0, 1, 30, 300},
        h \in {-5, 0, 1, 60, 120} }

\* a recent message
RecentMessage == [timestamp |-> Timestamp(0, TRUE), tokens |-> 100]

\* a historical pattern as the predictor reads it
HistoricalPattern(time, rate) == [time_to_limit_minutes |-> time, avg_tokens_per_minute |-> rate]

GenerateCalls ==
    { Call("generate_predictions",
           [recent_messages |-> r, historical_patterns |-> p, horizons |-> h]) :
        r \in { <<>>, <<RecentMessage>>, <<RecentMessage, RecentMessage>>,
                <<RecentMessage, RecentMessage, RecentMessage>> },
        p \in { <<>>, <<HistoricalPattern(Missing, 333)>> },
        h \in { <<>>, <<60>>, <<15, 30, 60, 120>>, <<60, 60>>, <<0, 60>> } }

\* messages `gap` seconds apart with the given token counts
MessagesApart(gap, tokens) ==
    [i \in 1..Len(tokens) |-> [timestamp |-> Timestamp((i - 1) * gap, TRUE), tokens |-> tokens[i]]]

ClassifyCalls ==
    { Call("classify", [features |-> f, recent_messages |-> MessagesApart(gap, tokens)]) :
        f \in { [tokens_per_minute |-> 50, token_rate_variance |-> v,
                 rate_acceleration |-> Zero, cache_hit_rate |-> c] :
                 v \in {Zero, Frac(35, 100), Frac(1, 1), Frac(2, 1)},
                 c \in {Zero, Frac(3, 10), Frac(65, 100), Frac(1, 1)} },
        gap \in {60, 150, 300, 1000},
        tokens \in { <<100, 200>>, <<100, 200, 300>>, <<300, 200, 100>>, <<100, 100, 100>>,
                     <<900, 1, 1, 1, 1, 1, 2>> } }

PredictCalls ==
    { Call("predict_time_to_limit",
           [features |-> [tokens_per_minute |-> t, token_rate_variance |-> v,
                          rate_acceleration |-> Zero, cache_hit_rate |-> Zero],
            context |-> c, historical_patterns |-> p, horizon_minutes |-> 60]) :
        t \in {0, 50, 2000}, v \in {Zero, Frac(1, 2)}, c \in Contexts,
        p \in { <<HistoricalPattern(Missing, 100)>>,
                <<HistoricalPattern(5, 100)>>,
                <<HistoricalPattern(180, 0)>>,
                <<HistoricalPattern(120, Missing)>>,
                <<HistoricalPattern(60, 100), HistoricalPattern(180, 0)>>,
                <<HistoricalPattern(0, 50), HistoricalPattern(60, 100),
                  HistoricalPattern(120, 150)>> } }

PredInit ==
    /\ corpus = {}
    /\ pc = "idle"
    /\ Fresh
    /\ run = NoRun
    /\ pred \in PredictionMetricsCalls \cup RiskScoreCalls \cup ProbabilityCalls
                \cup GenerateCalls \cup ClassifyCalls \cup PredictCalls

Return(outcome) ==
    /\ pred' = [pred EXCEPT !.called = TRUE, !.result = outcome]
    /\ UNCHANGED <<corpus, pc, files_seen, lines_read, last_line, last_exception, dpVars,
                   metrics, run, further_calls>>

CallPredictionMetrics ==
    /\ pred.fn = "calculate_prediction_metrics"
    /\ ~pred.called
    /\ Return(Returned(calculate_prediction_metrics(pred.args.five_hour_patterns,
                                                    pred.args.current_3h_tokens)))

CallRiskScore ==
    /\ pred.fn = "_calculate_risk_score"
    /\ ~pred.called
    /\ Return(_calculate_risk_score(Frac(pred.args.mean_prediction, 1),
                                    Frac(pred.args.uncertainty, 1),
                                    pred.args.rate_acceleration, pred.args.context,
                                    pred.args.horizon))

CallProbability ==
    /\ pred.fn = "_calculate_probability_within_horizon"
    /\ ~pred.called
    /\ \E outcome \in _calculate_probability_within_horizon(
                          Frac(pred.args.mean_prediction, 1), Frac(pred.args.uncertainty, 1),
                          pred.args.horizon) :
          Return(outcome)

CallGeneratePredictions ==
    /\ pred.fn = "generate_predictions"
    /\ ~pred.called
    /\ \E outcome \in generate_predictions(pred.args.recent_messages,
                                            pred.args.historical_patterns,
                                            pred.args.horizons) :
          Return(outcome)

CallClassify ==
    /\ pred.fn = "classify"
    /\ ~pred.called
    /\ Return(Returned(classify(pred.args.features, pred.args.recent_messages)))

CallPredictTimeToLimit ==
    /\ pred.fn = "predict_time_to_limit"
    /\ ~pred.called
    /\ \E outcome \in predict_time_to_limit(pred.args.features, pred.args.context,
                                             pred.args.historical_patterns,
                                             pred.args.horizon_minutes) :
          Return(outcome)

PredNext ==
    \/ CallPredictionMetrics \/ CallRiskScore \/ CallProbability \/ CallGeneratePredictions
    \/ CallClassify \/ CallPredictTimeToLimit

PredSpec == PredInit /\ [][PredNext]_vars

---------------------------------------------------------------------------
(* Backtesting *)

\* timestamps of the messages the patterns of a test case were built from
PatternMessages(case) ==
    UNION { { case.training_patterns[i].messages[j].timestamp :
                j \in 1..Len(case.training_patterns[i].messages) } :
            i \in 1..Len(case.training_patterns) }

HeldOut(case) ==
    LET target == case.target_timestamp.time
    IN  /\ \A i \in 1..Len(case.training_limits) :
              case.training_limits[i].timestamp.time < target
        /\ \A ts \in PatternMessages(case) : ts.time < target
        /\ \A j \in 1..Len(case.prediction_3h_messages) :
              case.prediction_3h_messages[j].timestamp.time < target

\* C13: strict temporal hold-out: in every test case of the backtest, each limit
\* hit of the training set, each message of a training pattern and each message of
\* the simulated 3-hour window is strictly earlier than the limit hit predicted,
\* in whatever order the limit hits were recorded.
C13_StrictTemporalHoldOut ==
    \A k \in 1..Len(run.backtest) : HeldOut(run.backtest[k])

---------------------------------------------------------------------------
(* Properties of the prediction functions *)

WithinBounds(q, lo, hi) == QLe(Frac(lo, 1), q) /\ QLe(q, Frac(hi, 1))

\* C14: every risk score calculate_prediction_metrics sets and every risk score
\* _calculate_risk_score returns lies within [0, 100], also when the current
\* 3-hour token count is far above every historical pattern.
C14_RiskScoresWithinBounds ==
    pred.called =>
        /\ pred.fn = "calculate_prediction_metrics"
              => WithinBounds(pred.result.value.current_session_risk_score, 0, 100)
        /\ (pred.fn = "_calculate_risk_score" /\ pred.result.exc = "none")
              => WithinBounds(pred.result.value, 0, 100)

C14_Witness ==
    /\ pred.called
    /\ pred.fn = "calculate_prediction_metrics"
    /\ pred.args.five_hour_patterns = <<Pattern(10)>>
    /\ pred.args.current_3h_tokens = 1000000
    /\ QEq(pred.result.value.current_session_risk_score, Frac(100, 1))

\* C15: for every positive mean, every positive uncertainty and every horizon,
\* _calculate_probability_within_horizon returns, and returns a value within [0, 1].
C15_ProbabilityWithinUnitInterval ==
    (/\ pred.called
     /\ pred.fn = "_calculate_probability_within_horizon"
     /\ pred.args.mean_prediction > 0
     /\ pred.args.uncertainty > 0)
    => /\ pred.result.exc = "none"
       /\ WithinBounds(pred.result.value, 0, 1)

\* C16: with fewer than 2 recent messages generate_predictions returns, whatever
\* the historical patterns, one result per requested horizon h: mean 3h, interval
\* (h, 6h), probability 0.05, risk score 10, context unknown.
C16_FallbackBelowTwoMessages ==
    (/\ pred.called
     /\ pred.fn = "generate_predictions"
     /\ Len(pred.args.recent_messages) < 2)
    => /\ pred.result.exc = "none"
       /\ DOMAIN pred.result.value = Range(pred.args.horizons)
       /\ \A h \in Range(pred.args.horizons) :
             LET p == pred.result.value[h]
             IN  /\ QEq(p.mean_minutes, Frac(3 * h, 1))
                 /\ QEq(p.confidence_interval[1], Frac(h, 1))
                 /\ QEq(p.confidence_interval[2], Frac(6 * h, 1))
                 /\ QEq(p.probability_within_hour, Frac(5, 100))
                 /\ QEq(p.risk_score, Frac(10, 1))
                 /\ p.context = "unknown"
                 /\ p.horizon_minutes = h

C16_Witness ==
    /\ pred.called
    /\ pred.fn = "generate_predictions"
    /\ Len(pred.args.recent_messages) = 1
    /\ pred.args.historical_patterns # <<>>
    /\ pred.args.horizons = <<15, 30, 60, 120>>
    /\ DOMAIN pred.result.value = {15, 30, 60, 120}
    /\ QEq(pred.result.value[60].mean_minutes, Frac(180, 1))

---------------------------------------------------------------------------
(* Properties of a command-line run *)

\* the texts of `out` that belong to the set `texts`, in order
TextsOf(out, texts) ==
    LET kept == SelectSeq(out, LAMBDA w : w.text \in texts)
    IN  [i \in 1..Len(kept) |-> kept[i].text]

Reports == {"metrics", "predict", "advanced", "backtest"}

\* C17: in every entry point and for every subcommand, a run whose file discovery
\* returns no files prints the error message, ingests nothing, prints no report
\* and ends with exit status 1.
C17_NoFilesExitStatusOne ==
    (run.at = "exited" /\ run.found = "none")
    => /\ TextsOf(run.out, {"no files"}) = <<"no files">>
       /\ TextsOf(run.out, Reports \cup {"ingestion"}) = <<>>
       /\ pc = "idle"
       /\ lines_read = 0
       /\ run.exit_status = 1

\* C18: a predict run that found a file writes, in this order and once each, the
\* banner with the privacy line, the ingestion, the predictions report, the
\* backtesting report and the completion banner; the completion banner is its last
\* output and its exit status is 0.
C18_PredictRunInOrder ==
    (run.at = "exited" /\ ArgsCommand(run) = "predict" /\ run.found = "some")
    => /\ TextsOf(run.out, {"banner", "privacy", "ingestion", "complete"} \cup Reports)
            = <<"banner", "privacy", "ingestion", "predict", "backtest", "complete">>
       /\ run.out[Len(run.out)].text = "complete"
       /\ pc = "done"
       /\ run.exit_status = 0

\* C19: no line written to standard output ends the run with an encoding error:
\* where the stream cannot encode a line, its ASCII substitute is written and the
\* run goes on.
C19_NoEncodingErrorEndsRun ==
    run.exception # "UnicodeEncodeError"

---------------------------------------------------------------------------
(* Timestamps without an offset *)

\* a line whose timestamp carries no offset was read, as the last line or as the
\* line of a stored message
NaiveTimestampRead ==
    \/ last_line.ts = "naive"
    \/ \E i \in 1..Len(all_messages) :
          all_messages[i].timestamp.set /\ ~all_messages[i].timestamp.aware

\* C21: a timestamp without a UTC offset is treated as UTC: a run over a log
\* holding usage lines whose timestamps have no offset, alone or next to lines
\* whose timestamps have one, completes calculate_comprehensive_metrics without
\* an error from comparing its timestamps.
C21_NaiveTimestampsTreatedAsUtc ==
    NaiveTimestampRead => run.exception # "TypeError"

---------------------------------------------------------------------------
(* Five-hour patterns *)

\* the limit hits that have a timestamped message in the five hours before them
HitsWithHistory ==
    { k \in 1..Len(limit_hits) :
        \E i \in 1..Len(all_messages) :
            /\ all_messages[i].timestamp.set
            /\ limit_hits[k].timestamp.time - FiveHours <= all_messages[i].timestamp.time
            /\ all_messages[i].timestamp.time < limit_hits[k].timestamp.time }

\* the k-th smallest element of a set of numbers
Nth(S, k) == CHOOSE x \in S : Cardinality({ y \in S : y < x }) = k - 1

\* C22 as claimed: analyze_five_hour_patterns returns exactly one pattern per
\* recorded limit hit, so there are as many patterns as limit hits.
C22_OnePatternPerLimitHit ==
    run.at = "report" => Len(run.five_hour_patterns) = Len(limit_hits)

\* C22 amended: analyze_five_hour_patterns returns one pattern for each limit hit
\* that has at least one timestamped message in the five hours before it, in the
\* order of the limit hits, and no pattern for any other limit hit.
C22_OnePatternPerLimitHitWithHistory ==
    run.at = "report"
    => /\ Len(run.five_hour_patterns) = Cardinality(HitsWithHistory)
       /\ \A j \in 1..Len(run.five_hour_patterns) :
             /\ run.five_hour_patterns[j].limit_timestamp
                   = limit_hits[Nth(HitsWithHistory, j)].timestamp
             /\ run.five_hour_patterns[j].total_messages >= 1

\* a run with two limit hits of which one has a message in its five hours
C22_Witness ==
    /\ run.at = "report"
    /\ Len(limit_hits) = 2
    /\ Len(run.five_hour_patterns) = 1

---------------------------------------------------------------------------
(* The legacy prediction *)

Finite(q) == q.den # 0

\* the three conditions of a prediction: a historical pattern, a positive
\* historical average of tokens per minute, a positive current rate
UsableHistory(five_hour_patterns, current_3h_tokens) ==
    /\ Len(five_hour_patterns) >= 1
    /\ \E i \in 1..Len(five_hour_patterns) : five_hour_patterns[i].total_tokens > 0
    /\ current_3h_tokens > 0

\* C23: calculate_prediction_metrics yields a finite minutes_to_next_limit exactly
\* when there is a historical pattern, the historical average of tokens per
\* minute is positive and the current 3-hour rate is positive; in every other
\* case the minutes and hours to the next limit are infinite, the tokens to the
\* next limit are 9,000,000 and the risk score is 0.
C23_FinitePredictionIffUsableHistory ==
    (pred.called /\ pred.fn = "calculate_prediction_metrics")
    => LET usable == UsableHistory(pred.args.five_hour_patterns, pred.args.current_3h_tokens)
           m == pred.result.value
       IN  /\ Finite(m.minutes_to_next_limit) <=> usable
           /\ Finite(m.hours_to_next_limit) <=> usable
           /\ ~usable => /\ m.minutes_to_next_limit = Infinity
                         /\ m.hours_to_next_limit = Infinity
                         /\ m.tokens_to_next_limit = 9000000
                         /\ QEq(m.current_session_risk_score, Zero)

\* a pattern without tokens and a positive current rate: no prediction
C23_Witness ==
    /\ pred.called
    /\ pred.fn = "calculate_prediction_metrics"
    /\ pred.args.five_hour_patterns = <<Pattern(0)>>
    /\ pred.args.current_3h_tokens = 60000
    /\ pred.result.value.minutes_to_next_limit = Infinity

---------------------------------------------------------------------------
(* Properties of the advanced predictor *)

\* the score of the i-th signature for the arguments of the call
ScoreAt(i) == Score(SignatureOrder[i], pred.args.features, pred.args.recent_messages)

\* C24: classify returns unknown below 3 recent messages; otherwise it returns the
\* first context, in the order exploration, coding, debugging, optimization,
\* whose score (0 to 4 points) is maximal, except that it returns unknown when
\* that maximal score is at most 1.
C24_ClassifyFirstMaximalScore ==
    (pred.called /\ pred.fn = "classify")
    => IF Len(pred.args.recent_messages) < 3 THEN pred.result.value = "unknown"
       ELSE /\ \A i \in 1..4 : ScoreAt(i) \in 0..4
            /\ IF \A i \in 1..4 : ScoreAt(i) <= 1 THEN pred.result.value = "unknown"
               ELSE \E i \in 1..4 :
                       /\ pred.result.value = SignatureOrder[i]
                       /\ \A j \in 1..4 : ScoreAt(j) <= ScoreAt(i)
                       /\ \A j \in 1..(i - 1) : ScoreAt(j) < ScoreAt(i)

\* coding and optimization share the maximal score and coding is returned
C24_Witness ==
    /\ pred.called
    /\ pred.fn = "classify"
    /\ pred.result.value = "coding"
    /\ ScoreAt(2) = ScoreAt(4)
    /\ ScoreAt(2) > ScoreAt(1)

\* no pattern of the call reports a positive average rate
NoPositiveRate(historical_patterns) ==
    \A i \in 1..Len(historical_patterns) : HistoricalRate(historical_patterns[i]) <= 0

\* C25: predict_time_to_limit returns a prediction result for every non-empty
\* list of historical patterns; where the current tokens-per-minute is positive
\* and no pattern reports a positive average rate, the rate adjustment is skipped
\* and the result is built on the recency-weighted mean floored at 5 minutes.
C25_PredictReturnsWithoutPositiveRate ==
    (/\ pred.called
     /\ pred.fn = "predict_time_to_limit"
     /\ pred.args.historical_patterns # <<>>)
    => /\ pred.result.exc = "none"
       /\ (pred.args.features.tokens_per_minute > 0
           /\ NoPositiveRate(pred.args.historical_patterns))
          => QEq(pred.result.value.mean_minutes,
                 QMul(QMax(Frac(5, 1), WeightedTime(pred.args.historical_patterns)),
                      context_models(pred.args.context).base_multiplier))

---------------------------------------------------------------------------
(* Order of the steps within one line *)

\* C26: within one line the session boundary is handled first, then the limit
\* check, then the usage: a limit hit recorded for a line captures the open
\* session's token total and message count as they were before the line's own
\* usage was added, and 0 and 0 when the line itself opened a new session; a line
\* without a timestamp records no limit hit.
C26_LimitHitBeforeOwnUsage ==
    [][ LineHandled =>
            LET line == last_line'
                n == Len(limit_hits)
            IN  /\ Len(limit_hits') \in {n, n + 1}
                /\ Len(limit_hits') = n + 1
                   => /\ line.ts \in {"naive", "aware"}
                      /\ IF next_id' # next_id
                         THEN /\ limit_hits'[n + 1].session_tokens = 0
                              /\ limit_hits'[n + 1].session_messages = 0
                         ELSE /\ limit_hits'[n + 1].session_tokens = current_session.total_tokens
                              /\ limit_hits'[n + 1].session_messages
                                    = Len(current_session.messages)
                /\ line.ts = "absent" => limit_hits' = limit_hits ]_vars

\* a usage line that is a limit hit was read twice: its second limit hit holds
\* the tokens of the first reading, the session those of both
C26_Witness ==
    /\ last_line.error_type = "Quota_Exceeded"
    /\ last_line.usage = "object"
    /\ Len(limit_hits) = 2
    /\ limit_hits[1].session_tokens = 0
    /\ limit_hits[2].session_tokens = 50
    /\ limit_hits[2].session_messages = 1
    /\ current_session.total_tokens = 100

\* C27: for every result predict_time_to_limit returns for a non-empty history, in
\* every session context, the confidence interval contains the mean prediction:
\* lower bound <= mean_minutes <= upper bound.
C27_IntervalContainsMean ==
    (/\ pred.called
     /\ pred.fn = "predict_time_to_limit"
     /\ pred.args.historical_patterns # <<>>
     /\ pred.result.exc = "none")
    => /\ QLe(pred.result.value.confidence_interval[1], pred.result.value.mean_minutes)
       /\ QLe(pred.result.value.mean_minutes, pred.result.value.confidence_interval[2])

---------------------------------------------------------------------------
(* Messages and sessions *)

---------------------------------------------------------------------------
(* Repeated ingestion *)

\* C29: for any number of calls of process_files on the same DataProcessor, no
\* session appears more than once in all_sessions, and session_count equals the
\* number of sessions that were opened.
C29_NoSessionTwice ==
    pc = "done"
    => /\ \A k, l \in 1..Len(all_sessions) :
             all_sessions[k].id = all_sessions[l].id => k = l
       /\ _calculate_session_metrics(ZeroMetrics, DP).session_count = next_id

---------------------------------------------------------------------------
(* Frame of calculate_metrics *)

\* C30: calculate_metrics only reads the ingested data: when it returns, every
\* field of the DataProcessor (all_messages, all_sessions, limit_hits,
\* all_timestamps with the order of its elements, last_5h_messages, the totals)
\* is as it was before the call.
C30_CalculateMetricsReadsOnly ==
    [][ CalculateMetrics => UNCHANGED dpVars ]_vars

====
